---- MODULE Spec2Model ----
(***************************************************************************)
(* Model of the Amazon MQ broker resource                                  *)
(* (internal/service/mq/broker.go): the user differ DiffBrokerUsers, the   *)
(* password validator ValidBrokerPassword, and the Create, Read, Update    *)
(* and Delete handlers with the remote calls they issue and the waits.     *)
(***************************************************************************)
EXTENDS Integers, Sequences, FiniteSets, TLC

VARIABLES
    handler,     \* the handler or function that is run: "update", "read", ...
    pc,          \* its position
    oldUsers,    \* o of d.GetChange("user"), as the list o.(*schema.Set).List()
    newUsers,    \* n of d.GetChange("user") (also d.Get("user")), as a list
    cr,          \* DiffBrokerUsers result: []*mq.CreateUserInput
    di,          \* DiffBrokerUsers result: []*mq.DeleteUserInput
    ur,          \* DiffBrokerUsers result: []*mq.UpdateUserInput
    password,    \* argument of ValidBrokerPassword: a sequence of characters
    pwErrors,    \* errors returned by ValidBrokerPassword
    cfgOld,      \* the attributes of the prior state that Update compares
    cfgNew,      \* the same attributes of the planned state
    applyImmediately,  \* d.Get("apply_immediately")
    userHasChange,     \* d.HasChange("user")
    requiresReboot,    \* resourceBrokerUpdate's local of that name
    updatedUsers,      \* updateBrokerUsers' local of that name
    dId,         \* d.Id()
    isNew,       \* d.IsNewResource()
    remoteUsers, \* the broker's users as the service holds them, by username
    calls,       \* the remote calls issued so far, in order, with their outcomes
    wait,        \* the running retry.StateChangeConf wait: its kind and polls
    summaries,   \* Read: the part of output.Users not yet described
    rawUsers,    \* Read: expandUsersForBroker's rawUsers
    stateUsers,  \* Read: the value given to d.Set("user")
    result,      \* what the handler returned: "ok" or "error"
    suspended    \* the pass of another goroutine, for another broker, while
                 \* it is not the one taking steps

diffVars == <<oldUsers, newUsers, cr, di, ur>>
pwVars == <<password, pwErrors>>
cfgVars == <<cfgOld, cfgNew, applyImmediately, userHasChange>>
readVars == <<summaries, rawUsers, stateUsers>>
handlerVars ==
    <<cfgVars, requiresReboot, updatedUsers, dId, isNew, remoteUsers, calls, wait,
      readVars, result>>

vars == <<handler, pc, diffVars, pwVars, handlerVars, suspended>>

-----------------------------------------------------------------------------
(* Bounds of the model.                                                    *)

\* Largest number of user blocks in one "user" set.
MaxUsers == 2

\* Longest freely chosen head of a password; the rest is padding.
MaxHead == 3

\* Number of polls after which a wait has used up its timeout.
MaxPolls == 2

-----------------------------------------------------------------------------
(* Generic helpers on sequences.                                           *)

Range(s) == {s[i] : i \in 1..Len(s)}

\* Sequences that list every element of the finite set S exactly once.
Perms(S) ==
    {s \in [1..Cardinality(S) -> S] : \A x \in S : \E i \in 1..Cardinality(S) : s[i] = x}

-----------------------------------------------------------------------------
(* The "user" attribute: a schema.TypeSet of blocks, each with a nested    *)
(* "groups" schema.TypeSet of strings.                                     *)

BrokerId == "b-1"

Usernames == {"alice", "bob", "carol"}
\* The usernames whose blocks the model varies field by field.
VariedUsernames == {"alice", "bob"}
Passwords == {"P", "Q"}
GroupNames == {"g1", "g2"}

\* The orders in which a configuration can list the groups of one user.
GroupListings == {<<>>, <<"g1">>, <<"g1", "g2">>, <<"g2", "g1">>}

\* A *schema.Set of strings, built from the listed items.  items records the
\* order of insertion, which the set does not expose.
SchemaSet(listing) == [kind |-> "Set", items |-> listing]

\* Hash code under which a *schema.Set files a group name.
GroupCode(g) == CASE g = "g1" -> 7 [] g = "g2" -> 3 [] OTHER -> 0

RECURSIVE SortByCode(_)
SortByCode(S) ==
    IF S = {} THEN <<>>
    ELSE LET m == CHOOSE x \in S : \A y \in S : GroupCode(x) <= GroupCode(y)
         IN  <<m>> \o SortByCode(S \ {m})

\* (*schema.Set).List(): the members ordered by their hash codes, whatever the
\* order of insertion was.
InsertionOrderList(g) == g.items
SetList(g) == SortByCode(Range(g.items))

\* One user block as resourceBroker's schema hands it over: every key present.
UserBlock(n, p, ca, ru, listing) ==
    [username |-> n, password |-> p, console_access |-> ca,
     replication_user |-> ru, groups |-> SchemaSet(listing)]

DefaultBlock(n) == UserBlock(n, "P", FALSE, FALSE, <<"g1", "g2">>)

\* The blocks the model draws from: for each username the default block and,
\* for the varied usernames, every block that differs from it in one field.
UserBlocks ==
    {DefaultBlock(n) : n \in Usernames}
    \cup UNION {
        {[DefaultBlock(n) EXCEPT !.password = p] : p \in Passwords}
        \cup {[DefaultBlock(n) EXCEPT !.console_access = b] : b \in BOOLEAN}
        \cup {[DefaultBlock(n) EXCEPT !.replication_user = b] : b \in BOOLEAN}
        \cup {[DefaultBlock(n) EXCEPT !.groups = SchemaSet(l)] : l \in GroupListings}
        : n \in VariedUsernames}

\* The block with its nested set replaced by the member set: two blocks with
\* the same canonical form are one element of a schema.Set.
Canon(u) == [u EXCEPT !.groups = Range(u.groups.items)]

\* resourceUserHash: the code that orders the blocks of a "user" set.
UserCode(u) ==
    (IF u.console_access THEN 1 ELSE 0)
    + 2 * Cardinality(Range(u.groups.items))
    + 8 * (IF u.password = "P" THEN 1 ELSE 0)
    + 16 * (IF u.username = "alice" THEN 0 ELSE 1)
    + 128 * (IF u.username = "carol" THEN 1 ELSE 0)
    + 32 * (IF u.replication_user THEN 0 ELSE 1)
    + (IF Range(u.groups.items) = {"g1"} THEN 64 ELSE 0)

RECURSIVE SortUsers(_)
SortUsers(S) ==
    IF S = {} THEN <<>>
    ELSE LET m == CHOOSE x \in S : \A y \in S : UserCode(x) <= UserCode(y)
         IN  <<m>> \o SortUsers(S \ {m})

\* What resourceUserHash writes into its buffer: two blocks that agree on it
\* have one hash code and are one element of a "user" set.
HashedFields(u) ==
    [console_access |-> u.console_access, groups |-> Range(u.groups.items),
     password |-> u.password, username |-> u.username]

\* The "user" sets of at most MaxUsers blocks.  Nothing makes usernames unique:
\* two blocks of one username that differ in another hashed field are two
\* elements.
UserSets ==
    {S \in SUBSET UserBlocks :
        /\ Cardinality(S) <= MaxUsers
        /\ \A u, v \in S : HashedFields(u) = HashedFields(v) => u = v}

\* d.Get("user").(*schema.Set).List()
UserLists == {SortUsers(S) : S \in UserSets}

Names(users) == {users[i].username : i \in 1..Len(users)}
UniqueNames(users) ==
    \A i, j \in 1..Len(users) : users[i].username = users[j].username => i = j

-----------------------------------------------------------------------------
(* DiffBrokerUsers                                                         *)

\* "Convert Set to slice to allow easier comparison": u["groups"] = groups.
\* The old map itself is changed; the new one is changed in a copy.
ConvertGroups(u) == [u EXCEPT !.groups = [kind |-> "List", items |-> SetList(u.groups)]]

\* existingUsers after the first loop: indexed by username, a later block of
\* the same username replacing an earlier one.
RECURSIVE ExistingUsers(_, _)
ExistingUsers(old, k) ==
    IF k = 0 THEN [n \in {} |-> 0]
    ELSE LET prev == ExistingUsers(old, k - 1)
             u == ConvertGroups(old[k])
         IN  [n \in DOMAIN prev \cup {u.username} |->
                 IF n = u.username THEN u ELSE prev[n]]

\* A comparison that leaves the password out.
DeepEqualButPassword(eu, nu) ==
    [eu EXCEPT !.password = ""] = [nu EXCEPT !.password = ""]

\* reflect.DeepEqual(existingUserMap, newUserMap)
DeepEqual(eu, nu) == eu = nu

UnsetGroups == [kind |-> "Unset"]

\* CreateUserInput without the assignment of cur.Groups.
CreateUserInputNoGroups(bId, nu) ==
    [BrokerId |-> bId,
     ConsoleAccess |-> nu.console_access,
     Password |-> nu.password,
     ReplicationUser |-> nu.replication_user,
     Username |-> nu.username,
     Groups |-> UnsetGroups]

\* CreateUserInput with cur.Groups assigned whatever the length of ng.
CreateUserInputEmptyGroups(bId, nu) ==
    [BrokerId |-> bId,
     ConsoleAccess |-> nu.console_access,
     Password |-> nu.password,
     ReplicationUser |-> nu.replication_user,
     Username |-> nu.username,
     Groups |-> [kind |-> "List", items |-> nu.groups.items]]

CreateUserInput(bId, nu) ==
    [BrokerId |-> bId,
     ConsoleAccess |-> nu.console_access,
     Password |-> nu.password,
     ReplicationUser |-> nu.replication_user,
     Username |-> nu.username,
     Groups |-> IF Len(nu.groups.items) > 0
                THEN [kind |-> "List", items |-> nu.groups.items]
                ELSE UnsetGroups]

UpdateUserInput(bId, nu) ==
    [BrokerId |-> bId,
     ConsoleAccess |-> nu.console_access,
     Groups |-> [kind |-> "List", items |-> nu.groups.items],
     ReplicationUser |-> nu.replication_user,
     Password |-> nu.password,
     Username |-> nu.username]

\* A delete that names one broker whatever the pass is for.
DeleteUserInputOfOneBroker(bId, n) == [BrokerId |-> BrokerId, Username |-> n]

DeleteUserInput(bId, n) == [BrokerId |-> bId, Username |-> n]

\* The second loop without "delete(existingUsers, username)": a matched
\* username stays in existingUsers.
RECURSIVE DiffLoopKeepsMatched(_, _, _, _)
DiffLoopKeepsMatched(bId, old, new, k) ==
    IF k = 0 THEN [cr |-> <<>>, ur |-> <<>>, existing |-> ExistingUsers(old, Len(old))]
    ELSE LET acc == DiffLoopKeepsMatched(bId, old, new, k - 1)
             nu == ConvertGroups(new[k])
         IN  IF nu.username \in DOMAIN acc.existing
             THEN [cr |-> acc.cr,
                   ur |-> IF ~DeepEqual(acc.existing[nu.username], nu)
                          THEN Append(acc.ur, UpdateUserInput(bId, nu))
                          ELSE acc.ur,
                   existing |-> acc.existing]
             ELSE [cr |-> Append(acc.cr, CreateUserInput(bId, nu)),
                   ur |-> acc.ur,
                   existing |-> acc.existing]

\* The second loop, over newUsers[1..k]: the creates and updates emitted so
\* far and what is left of existingUsers.
RECURSIVE DiffLoop(_, _, _, _)
DiffLoop(bId, old, new, k) ==
    IF k = 0 THEN [cr |-> <<>>, ur |-> <<>>, existing |-> ExistingUsers(old, Len(old))]
    ELSE LET acc == DiffLoop(bId, old, new, k - 1)
             nu == ConvertGroups(new[k])
         IN  IF nu.username \in DOMAIN acc.existing
             THEN [cr |-> acc.cr,
                   ur |-> IF ~DeepEqual(acc.existing[nu.username], nu)
                          THEN Append(acc.ur, UpdateUserInput(bId, nu))
                          ELSE acc.ur,
                   existing |-> [n \in DOMAIN acc.existing \ {nu.username} |->
                                    acc.existing[n]]]
             ELSE [cr |-> Append(acc.cr, CreateUserInput(bId, nu)),
                   ur |-> acc.ur,
                   existing |-> acc.existing]

\* The results DiffBrokerUsers can return: the deletes come out of a range
\* over a Go map, in any order.
DiffBrokerUsers(bId, old, new) ==
    LET r == DiffLoop(bId, old, new, Len(new))
    IN  {[cr |-> r.cr, ur |-> r.ur,
          di |-> [i \in 1..Len(p) |-> DeleteUserInput(bId, p[i])]] :
            p \in Perms(DOMAIN r.existing)}

\* The old list as DiffBrokerUsers leaves it: every map has its groups set
\* replaced by the slice.
OldAfterDiff(old) == [i \in 1..Len(old) |-> ConvertGroups(old[i])]

-----------------------------------------------------------------------------
(* The remote service, as far as the handlers see it.                      *)

\* What the service holds of one user.
RemoteUser(console, replication, pw, groups) ==
    [console_access |-> console, replication_user |-> replication,
     password |-> pw, groups |-> groups]

RemoteUserOfBlock(u) ==
    RemoteUser(u.console_access, u.replication_user, u.password, Range(u.groups.items))

\* The remote users in step with a "user" list: under each username one of
\* the blocks the list holds for it.
RemoteStates(users) ==
    {f \in [Names(users) -> {RemoteUserOfBlock(users[i]) : i \in 1..Len(users)}] :
        \A n \in Names(users) :
            \E i \in 1..Len(users) :
                users[i].username = n /\ f[n] = RemoteUserOfBlock(users[i])}

GroupsOfInput(g) == IF g.kind = "Unset" THEN {} ELSE Range(g.items)

\* conn.CreateUser, conn.UpdateUser and conn.DeleteUser, when they succeed.
AfterCreateUser(remote, c) ==
    [n \in DOMAIN remote \cup {c.Username} |->
        IF n = c.Username
        THEN RemoteUser(c.ConsoleAccess, c.ReplicationUser, c.Password,
                        GroupsOfInput(c.Groups))
        ELSE remote[n]]
AfterUpdateUser(remote, u) ==
    [remote EXCEPT ![u.Username] =
        RemoteUser(u.ConsoleAccess, u.ReplicationUser, u.Password,
                   GroupsOfInput(u.Groups))]
AfterDeleteUser(remote, d) == [n \in DOMAIN remote \ {d.Username} |-> remote[n]]

\* Whether a call can succeed: the service answers Conflict to the creation
\* of a user that exists and NotFound to the update or deletion of one that
\* does not; any call can fail for other reasons.
CreateUserOutcomes(remote, c) == IF c.Username \in DOMAIN remote THEN {FALSE} ELSE BOOLEAN
ExistingUserOutcomes(remote, u) == IF u.Username \in DOMAIN remote THEN BOOLEAN ELSE {FALSE}

\* types.BrokerState
BrokerStates ==
    {"CREATION_IN_PROGRESS", "CREATION_FAILED", "DELETION_IN_PROGRESS", "RUNNING",
     "REBOOT_IN_PROGRESS", "CRITICAL_ACTION_REQUIRED"}

\* One remote call in the log.  target is the attribute group of an
\* UpdateBroker, the username of a user call, the answer of a DescribeBroker.
Call(api, id, target, fields, ok) ==
    [api |-> api, BrokerId |-> id, target |-> target, fields |-> fields, ok |-> ok]

-----------------------------------------------------------------------------
(* DiffBrokerUsers applied to every pair of "user" sets.                   *)

NoResult == <<>>
\* No wait is running; err is what the last WaitForStateContext returned.
WaitEnded(err) == [kind |-> "none", polls |-> 0, err |-> err]
WaitStarted(kind) == [kind |-> kind, polls |-> 0, err |-> "none"]
NoWait == WaitEnded("none")
NoUsers == [n \in {} |-> 0]
\* No other pass runs.
NoPass == <<>>

\* The attributes resourceBrokerUpdate tests with d.HasChange.
UpdatableKeys ==
    {"security_groups", "configuration", "logs", "engine_version",
     "host_instance_type", "auto_minor_version_upgrade",
     "maintenance_window_start_time"}

\* The ForceNew attributes of the claims, and the computed arn.
CreationOnlyKeys == {"engine_type", "deployment_mode", "publicly_accessible", "subnet_ids"}
CfgKeys == UpdatableKeys \cup CreationOnlyKeys \cup {"arn"}

\* Values of engine_type that pass enum.ValidateIgnoreCase[types.EngineType].
EngineTypes == {"ActiveMQ", "RabbitMQ", "RABBITMQ"}
\* strings.EqualFold on those values.
ToUpper(e) == IF e = "ActiveMQ" THEN "ACTIVEMQ" ELSE "RABBITMQ"
EqualFold(a, b) == ToUpper(a) = ToUpper(b)
EngineTypeRabbitmq == "RABBITMQ"

BrokerArn == "arn:b-1"

PriorCfg ==
    [k \in CfgKeys |->
        IF k = "engine_type" THEN "ActiveMQ" ELSE IF k = "arn" THEN BrokerArn ELSE "v0"]

\* No handler is running and no password is being validated.
PasswordIdle == password = <<>> /\ pwErrors = <<>>
HandlerIdle ==
    /\ cfgOld = PriorCfg /\ cfgNew = PriorCfg
    /\ applyImmediately = FALSE /\ userHasChange = FALSE
    /\ requiresReboot = FALSE /\ updatedUsers = FALSE
    /\ dId = BrokerId /\ isNew = FALSE
    /\ remoteUsers = NoUsers
    /\ calls = <<>> /\ wait = NoWait
    /\ summaries = <<>> /\ rawUsers = <<>> /\ stateUsers = NoResult
    /\ result = "none"
    /\ suspended = NoPass

InitDiff ==
    /\ handler = "diff"
    /\ pc = "diff"
    /\ oldUsers \in UserLists
    /\ newUsers \in UserLists
    /\ cr = NoResult /\ di = NoResult /\ ur = NoResult
    /\ PasswordIdle /\ HandlerIdle

Diff ==
    /\ pc = "diff"
    /\ \E r \in DiffBrokerUsers(BrokerId, oldUsers, newUsers) :
          /\ cr' = r.cr
          /\ di' = r.di
          /\ ur' = r.ur
    /\ oldUsers' = OldAfterDiff(oldUsers)
    /\ pc' = "diff_done"
    /\ UNCHANGED <<handler, suspended, newUsers, pwVars, handlerVars>>

NextDiff == Diff

SpecDiff == InitDiff /\ [][NextDiff]_vars

-----------------------------------------------------------------------------
(* Properties of DiffBrokerUsers, under SpecDiff.                          *)

Targets(ops) == {ops[i].Username : i \in 1..Len(ops)}
OneOpPerName(ops) == Cardinality(Targets(ops)) = Len(ops)

\* C1: when the usernames are unique within old and within new, the Creates
\* target exactly the usernames of new that old lacks, the Deletes exactly
\* the usernames of old that new lacks, the Updates only usernames present in
\* both, and no username is the target of two operations.
C1_DiffByUsername ==
    (pc = "diff_done" /\ UniqueNames(oldUsers) /\ UniqueNames(newUsers)) =>
        /\ Targets(cr) = Names(newUsers) \ Names(oldUsers)
        /\ Targets(di) = Names(oldUsers) \ Names(newUsers)
        /\ Targets(ur) \subseteq Names(oldUsers) \cap Names(newUsers)
        /\ OneOpPerName(cr) /\ OneOpPerName(di) /\ OneOpPerName(ur)
        /\ \A i \in 1..Len(cr) : cr[i].BrokerId = BrokerId
        /\ \A i \in 1..Len(di) : di[i].BrokerId = BrokerId
        /\ \A i \in 1..Len(ur) : ur[i].BrokerId = BrokerId

\* A diff of two sets with unique usernames that creates one user, deletes
\* another and updates a third.
C1_Witness ==
    /\ pc = "diff_done" /\ UniqueNames(oldUsers) /\ UniqueNames(newUsers)
    /\ Len(cr) = 1 /\ Len(di) = 1 /\ Len(ur) = 1

\* C2: DiffBrokerUsers called with one collection as old and as new emits no
\* Create, no Delete and no Update.
C2_DiffSelfEmpty ==
    [][(pc = "diff" /\ oldUsers = newUsers) =>
          (cr' = <<>> /\ di' = <<>> /\ ur' = <<>>)]_vars

\* The same for the collections the claim fails to exclude: those in which
\* every username occurs once.
DiffSelfEmptyUniqueNames ==
    [][(pc = "diff" /\ oldUsers = newUsers /\ UniqueNames(newUsers)) =>
          (cr' = <<>> /\ di' = <<>> /\ ur' = <<>>)]_vars

\* The entries differ in the order their groups are listed and in nothing else.
DifferOnlyInGroupOrder(o, n) == o # n /\ Canon(o) = Canon(n)

\* C3: if an old and a new entry of one username differ only in the order in
\* which the groups are listed, no Update is emitted for that username.
C3_GroupOrderNoUpdate ==
    [][pc = "diff" =>
          \A i \in 1..Len(oldUsers), j \in 1..Len(newUsers) :
              DifferOnlyInGroupOrder(oldUsers[i], newUsers[j]) =>
                  newUsers[j].username \notin Targets(ur')]_vars

\* The same where the username occurs once in old and once in new.
GroupOrderNoUpdateUniqueNames ==
    [][(pc = "diff" /\ UniqueNames(oldUsers) /\ UniqueNames(newUsers)) =>
          \A i \in 1..Len(oldUsers), j \in 1..Len(newUsers) :
              DifferOnlyInGroupOrder(oldUsers[i], newUsers[j]) =>
                  newUsers[j].username \notin Targets(ur')]_vars

-----------------------------------------------------------------------------
(* ValidBrokerPassword                                                     *)

MinPasswordLen == 12
MaxPasswordLen == 250
MinUniqueChars == 4

\* The characters passwords are made of; "e_acute" stands for a character
\* outside ASCII, which UTF-8 encodes in two bytes.
Chars == {"a", "b", "c", "d", ",", "e_acute"}
ByteWidth(c) == IF c = "e_acute" THEN 2 ELSE 1

\* len(value): the length of a Go string is its number of bytes, here the
\* bytes of value[lo..hi] (summed by halves to keep the evaluation shallow).
RECURSIVE ByteLenFrom(_, _, _)
ByteLenFrom(value, lo, hi) ==
    IF lo > hi THEN 0
    ELSE IF lo = hi THEN ByteWidth(value[lo])
    ELSE LET mid == (lo + hi) \div 2
         IN  ByteLenFrom(value, lo, mid) + ByteLenFrom(value, mid + 1, hi)
ByteLen(value) == ByteLenFrom(value, 1, Len(value))
RuneCount(value) == Len(value)

\* One pass of the body of "for _, v := range value".
UniqueStep(acc, v) ==
    IF v \in acc.unique THEN acc
    ELSE [unique |-> acc.unique \cup {v},
          errors |-> IF v = "," THEN Append(acc.errors, "commas") ELSE acc.errors]

\* The loop over value[lo..hi], in order, from the state acc (by halves to
\* keep the evaluation shallow).
RECURSIVE UniqueLoop(_, _, _, _)
UniqueLoop(value, lo, hi, acc) ==
    IF lo > hi THEN acc
    ELSE IF lo = hi THEN UniqueStep(acc, value[lo])
    ELSE LET mid == (lo + hi) \div 2
             first == UniqueLoop(value, lo, mid, acc)
         IN  \* the test is always true: it makes TLC finish the first half
             \* before it starts the second
             IF first.unique # {} THEN UniqueLoop(value, mid + 1, hi, first)
             ELSE acc

\* The errors ValidBrokerPassword returns, in order.
ValidBrokerPassword(value) ==
    LET loop == UniqueLoop(value, 1, Len(value), [unique |-> {}, errors |-> <<>>])
        e1 == IF Cardinality(loop.unique) < MinUniqueChars
              THEN Append(loop.errors, "unique") ELSE loop.errors
    IN  IF ByteLen(value) < MinPasswordLen \/ ByteLen(value) > MaxPasswordLen
        THEN Append(e1, "length") ELSE e1

\* Passwords: a head of at most MaxHead characters followed by one character
\* repeated, so that the total length falls on both sides of both limits.
Heads == UNION {[1..n -> Chars] : n \in 0..MaxHead}
PadLengths ==
    {0, 1,
     MinPasswordLen - MaxHead - 1, MinPasswordLen - MaxHead,
     MaxPasswordLen - MaxHead, MaxPasswordLen - MaxHead + 1}
PaddedPasswords ==
    {h \o [i \in 1..n |-> c] : h \in Heads, n \in PadLengths, c \in {"a", "d", "e_acute"}}

NotValidated == <<"pending">>

InitPassword ==
    /\ handler = "validate"
    /\ pc = "validate"
    /\ password \in PaddedPasswords
    /\ pwErrors = NotValidated
    /\ oldUsers = <<>> /\ newUsers = <<>>
    /\ cr = NoResult /\ di = NoResult /\ ur = NoResult
    /\ HandlerIdle

Validate ==
    /\ pc = "validate"
    /\ pwErrors' = ValidBrokerPassword(password)
    /\ pc' = "validated"
    /\ UNCHANGED <<handler, suspended, password, diffVars, handlerVars>>

NextPassword == Validate

SpecPassword == InitPassword /\ [][NextPassword]_vars

\* C6: ValidBrokerPassword returns no error exactly for the passwords of 12
\* to 250 characters with at least 4 distinct characters and no comma.
C6_PasswordPolicy ==
    pc = "validated" =>
        (pwErrors = <<>> <=>
            /\ RuneCount(password) >= MinPasswordLen
            /\ RuneCount(password) <= MaxPasswordLen
            /\ Cardinality(Range(password)) >= MinUniqueChars
            /\ "," \notin Range(password))

\* The policy the code implements: the two limits bound the length in bytes.
PasswordPolicyInBytes ==
    pc = "validated" =>
        (pwErrors = <<>> <=>
            /\ ByteLen(password) >= MinPasswordLen
            /\ ByteLen(password) <= MaxPasswordLen
            /\ Cardinality(Range(password)) >= MinUniqueChars
            /\ "," \notin Range(password))

\* The same policy on the passwords of ASCII characters.
PasswordPolicyAscii ==
    (pc = "validated" /\ "e_acute" \notin Range(password)) =>
        (pwErrors = <<>> <=>
            /\ RuneCount(password) >= MinPasswordLen
            /\ RuneCount(password) <= MaxPasswordLen
            /\ Cardinality(Range(password)) >= MinUniqueChars
            /\ "," \notin Range(password))

-----------------------------------------------------------------------------
(* resourceBrokerUpdate                                                    *)

\* The "user" sets the handlers are run on.
HandlerBlocks ==
    {DefaultBlock("alice"),
     [DefaultBlock("alice") EXCEPT !.password = "Q"],
     [DefaultBlock("bob") EXCEPT !.groups = SchemaSet(<<>>)],
     DefaultBlock("carol")}
HandlerUserLists ==
    {SortUsers(S) : S \in {T \in SUBSET HandlerBlocks : Cardinality(T) <= MaxUsers}}

CanonSet(users) == {Canon(users[i]) : i \in 1..Len(users)}

\* d.HasChange(key), d.HasChanges(keys...)
HasChange(key) == cfgOld[key] # cfgNew[key]
HasChangesAll(keys) == \A k \in keys : HasChange(k)
HasChanges(keys) == \E k \in keys : HasChange(k)

\* The DiffSuppressFunc of "user".
SuppressUserDiff(engineType, arn) ==
    EqualFold(engineType, EngineTypeRabbitmq) /\ arn # ""

\* The "user" set of the plan: the prior one where the diff is suppressed,
\* the configured one otherwise.
PlannedUsers(engineType, arn, prior, config) ==
    IF SuppressUserDiff(engineType, arn) THEN prior ELSE config

\* The prior states Update is run from.
PriorCfgs == {[PriorCfg EXCEPT !["engine_type"] = e] : e \in EngineTypes}

\* The planned attributes: any of the updatable ones changed, or one
\* ForceNew attribute changed and nothing else.
PlannedCfgs(prior) ==
    {[k \in CfgKeys |-> IF k \in UpdatableKeys THEN u[k] ELSE prior[k]] :
        u \in [UpdatableKeys -> {"v0", "v1"}]}
    \cup {[prior EXCEPT ![k] = "v1"] : k \in CreationOnlyKeys \ {"engine_type"}}
    \cup {[prior EXCEPT !["engine_type"] = e] : e \in EngineTypes \ {prior["engine_type"]}}

InitUpdate ==
    /\ handler = "update"
    /\ pc = "upd_security_groups"
    /\ oldUsers \in HandlerUserLists
    /\ cfgOld \in PriorCfgs
    /\ cfgNew \in PlannedCfgs(cfgOld)
    /\ \E config \in HandlerUserLists :
          newUsers = PlannedUsers(cfgNew["engine_type"], cfgNew["arn"], oldUsers, config)
    /\ cr = NoResult /\ di = NoResult /\ ur = NoResult
    /\ PasswordIdle
    /\ applyImmediately \in BOOLEAN
    \* "d.HasChange("user") always reports a change when running
    \* resourceBrokerUpdate": it can be true of two equal sets.
    /\ userHasChange \in BOOLEAN
    /\ CanonSet(oldUsers) # CanonSet(newUsers) => userHasChange
    /\ requiresReboot = FALSE /\ updatedUsers = FALSE
    /\ dId = BrokerId /\ isNew = FALSE
    /\ remoteUsers \in RemoteStates(oldUsers)
    /\ calls = <<>> /\ wait = NoWait
    /\ summaries = <<>> /\ rawUsers = <<>> /\ stateUsers = NoResult
    /\ result = "none"

\* A return that drops the error.
ReturnErrorDropped == pc' = "done" /\ result' = "ok"

\* "return sdkdiag.AppendErrorf(diags, ...)"
ReturnError == pc' = "done" /\ result' = "error"
ReturnOk == pc' = "done" /\ result' = "ok"

\* One "if d.HasChange(...) { conn.UpdateBroker(...) }" block of
\* resourceBrokerUpdate.
UpdateBrokerBlock(here, next, changed, group, fields, reboots) ==
    /\ pc = here
    /\ IF changed
       THEN \E ok \in BOOLEAN :
               /\ calls' = Append(calls, Call("UpdateBroker", dId, group, fields, ok))
               /\ IF ok
                  THEN /\ pc' = next
                       /\ requiresReboot' = (requiresReboot \/ reboots)
                       /\ UNCHANGED result
                  ELSE ReturnError /\ UNCHANGED requiresReboot
       ELSE pc' = next /\ UNCHANGED <<calls, requiresReboot, result>>
    /\ UNCHANGED <<handler, suspended,
                   diffVars, pwVars, cfgVars, updatedUsers, dId, isNew, remoteUsers,
                   wait, readVars>>

UpdSecurityGroups ==
    UpdateBrokerBlock("upd_security_groups", "upd_configuration",
                      HasChange("security_groups"), "security_groups",
                      {"SecurityGroups"}, FALSE)

UpdConfiguration ==
    UpdateBrokerBlock("upd_configuration", "upd_users",
                      HasChanges({"configuration", "logs", "engine_version"}),
                      "configuration",
                      {"Configuration", "EngineVersion", "Logs"}, TRUE)

\* "if d.HasChange("user")": updateBrokerUsers up to the return of
\* DiffBrokerUsers.
UpdUsers ==
    /\ pc = "upd_users"
    /\ IF userHasChange
       THEN /\ \E r \in DiffBrokerUsers(dId, oldUsers, newUsers) :
                  cr' = r.cr /\ di' = r.di /\ ur' = r.ur
            /\ oldUsers' = OldAfterDiff(oldUsers)
            /\ pc' = "upd_create_users"
       ELSE /\ pc' = "upd_host_instance_type"
            /\ UNCHANGED <<oldUsers, cr, di, ur>>
    /\ updatedUsers' = FALSE
    /\ UNCHANGED <<handler, suspended,
                   newUsers, pwVars, cfgVars, requiresReboot, dId, isNew, remoteUsers,
                   calls, wait, readVars, result>>

\* The loop over updateL placed before the loop over createL.
UpdCreateUserAfterUpdates ==
    /\ pc = "upd_create_users"
    /\ IF ur # <<>>
       THEN \E ok \in ExistingUserOutcomes(remoteUsers, Head(ur)) :
               /\ calls' = Append(calls, Call("UpdateUser", Head(ur).BrokerId,
                                              Head(ur).Username, {}, ok))
               /\ updatedUsers' = TRUE
               /\ ur' = Tail(ur)
               /\ IF ok
                  THEN /\ remoteUsers' = AfterUpdateUser(remoteUsers, Head(ur))
                       /\ UNCHANGED <<pc, result>>
                  ELSE ReturnError /\ UNCHANGED remoteUsers
               /\ UNCHANGED cr
       ELSE IF cr = <<>>
       THEN /\ pc' = "upd_delete_users"
            /\ UNCHANGED <<cr, ur, calls, updatedUsers, remoteUsers, result>>
       ELSE \E ok \in CreateUserOutcomes(remoteUsers, Head(cr)) :
               /\ calls' = Append(calls, Call("CreateUser", Head(cr).BrokerId,
                                              Head(cr).Username, {}, ok))
               /\ updatedUsers' = TRUE
               /\ cr' = Tail(cr)
               /\ IF ok
                  THEN /\ remoteUsers' = AfterCreateUser(remoteUsers, Head(cr))
                       /\ UNCHANGED <<pc, result>>
                  ELSE ReturnError /\ UNCHANGED remoteUsers
               /\ UNCHANGED ur
    /\ UNCHANGED <<handler, suspended,
                   oldUsers, newUsers, di, pwVars, cfgVars, requiresReboot, dId,
                   isNew, wait, readVars>>

\* "for _, c := range createL"
UpdCreateUser ==
    /\ pc = "upd_create_users"
    /\ IF cr = <<>>
       THEN /\ pc' = "upd_delete_users"
            /\ UNCHANGED <<cr, calls, updatedUsers, remoteUsers, result>>
       ELSE \E ok \in CreateUserOutcomes(remoteUsers, Head(cr)) :
               /\ calls' = Append(calls, Call("CreateUser", Head(cr).BrokerId,
                                              Head(cr).Username, {}, ok))
               /\ updatedUsers' = TRUE
               /\ cr' = Tail(cr)
               /\ IF ok
                  THEN /\ remoteUsers' = AfterCreateUser(remoteUsers, Head(cr))
                       /\ UNCHANGED <<pc, result>>
                  ELSE ReturnError /\ UNCHANGED remoteUsers
    /\ UNCHANGED <<handler, suspended,
                   oldUsers, newUsers, di, ur, pwVars, cfgVars, requiresReboot, dId,
                   isNew, wait, readVars>>

\* The loop over updateL placed before the loop over deleteL.
UpdDeleteUserAfterUpdates ==
    /\ pc = "upd_delete_users"
    /\ IF ur # <<>>
       THEN \E ok \in ExistingUserOutcomes(remoteUsers, Head(ur)) :
               /\ calls' = Append(calls, Call("UpdateUser", Head(ur).BrokerId,
                                              Head(ur).Username, {}, ok))
               /\ updatedUsers' = TRUE
               /\ ur' = Tail(ur)
               /\ IF ok
                  THEN /\ remoteUsers' = AfterUpdateUser(remoteUsers, Head(ur))
                       /\ UNCHANGED <<pc, result>>
                  ELSE ReturnError /\ UNCHANGED remoteUsers
               /\ UNCHANGED di
       ELSE IF di = <<>>
       THEN /\ pc' = "upd_update_users"
            /\ UNCHANGED <<di, ur, calls, updatedUsers, remoteUsers, result>>
       ELSE \E ok \in ExistingUserOutcomes(remoteUsers, Head(di)) :
               /\ calls' = Append(calls, Call("DeleteUser", Head(di).BrokerId,
                                              Head(di).Username, {}, ok))
               /\ updatedUsers' = TRUE
               /\ di' = Tail(di)
               /\ IF ok
                  THEN /\ remoteUsers' = AfterDeleteUser(remoteUsers, Head(di))
                       /\ UNCHANGED <<pc, result>>
                  ELSE ReturnError /\ UNCHANGED remoteUsers
               /\ UNCHANGED ur
    /\ UNCHANGED <<handler, suspended,
                   oldUsers, newUsers, cr, pwVars, cfgVars, requiresReboot, dId,
                   isNew, wait, readVars>>

\* "for _, d := range deleteL"
UpdDeleteUser ==
    /\ pc = "upd_delete_users"
    /\ IF di = <<>>
       THEN /\ pc' = "upd_update_users"
            /\ UNCHANGED <<di, calls, updatedUsers, remoteUsers, result>>
       ELSE \E ok \in ExistingUserOutcomes(remoteUsers, Head(di)) :
               /\ calls' = Append(calls, Call("DeleteUser", Head(di).BrokerId,
                                              Head(di).Username, {}, ok))
               /\ updatedUsers' = TRUE
               /\ di' = Tail(di)
               /\ IF ok
                  THEN /\ remoteUsers' = AfterDeleteUser(remoteUsers, Head(di))
                       /\ UNCHANGED <<pc, result>>
                  ELSE ReturnError /\ UNCHANGED remoteUsers
    /\ UNCHANGED <<handler, suspended,
                   oldUsers, newUsers, cr, ur, pwVars, cfgVars, requiresReboot, dId,
                   isNew, wait, readVars>>

\* "for _, u := range updateL", then the return to resourceBrokerUpdate:
\* "if usersUpdated { requiresReboot = true }".
UpdUpdateUser ==
    /\ pc = "upd_update_users"
    /\ IF ur = <<>>
       THEN /\ pc' = "upd_host_instance_type"
            /\ requiresReboot' = (requiresReboot \/ updatedUsers)
            /\ UNCHANGED <<ur, calls, updatedUsers, remoteUsers, result>>
       ELSE \E ok \in ExistingUserOutcomes(remoteUsers, Head(ur)) :
               /\ calls' = Append(calls, Call("UpdateUser", Head(ur).BrokerId,
                                              Head(ur).Username, {}, ok))
               /\ updatedUsers' = TRUE
               /\ ur' = Tail(ur)
               /\ IF ok
                  THEN /\ remoteUsers' = AfterUpdateUser(remoteUsers, Head(ur))
                       /\ UNCHANGED <<pc, result>>
                  ELSE ReturnError /\ UNCHANGED remoteUsers
               /\ UNCHANGED requiresReboot
    /\ UNCHANGED <<handler, suspended,
                   oldUsers, newUsers, cr, di, pwVars, cfgVars, dId, isNew, wait,
                   readVars>>

UpdHostInstanceType ==
    UpdateBrokerBlock("upd_host_instance_type", "upd_auto_minor_version_upgrade",
                      HasChange("host_instance_type"), "host_instance_type",
                      {"HostInstanceType"}, TRUE)

UpdAutoMinorVersionUpgrade ==
    UpdateBrokerBlock("upd_auto_minor_version_upgrade", "upd_maintenance_window",
                      HasChange("auto_minor_version_upgrade"),
                      "auto_minor_version_upgrade", {"AutoMinorVersionUpgrade"}, TRUE)

\* The block of security_groups in the place of the last block.
UpdSecurityGroupsLast ==
    UpdateBrokerBlock("upd_maintenance_window", "upd_reboot",
                      HasChange("security_groups"), "security_groups",
                      {"SecurityGroups"}, FALSE)

UpdMaintenanceWindow ==
    UpdateBrokerBlock("upd_maintenance_window", "upd_reboot",
                      HasChange("maintenance_window_start_time"),
                      "maintenance_window_start_time",
                      {"MaintenanceWindowStartTime"}, TRUE)

\* "if d.Get("apply_immediately").(bool) && requiresReboot"
NeedsRebootIgnoringApply(apply, reboot) == reboot
NeedsReboot(apply, reboot) == apply /\ reboot

UpdReboot ==
    /\ pc = "upd_reboot"
    /\ IF NeedsReboot(applyImmediately, requiresReboot)
       THEN \E ok \in BOOLEAN :
               /\ calls' = Append(calls, Call("RebootBroker", dId, "", {}, ok))
               /\ IF ok
                  THEN /\ pc' = "upd_wait_rebooted"
                       /\ wait' = WaitStarted("rebooted")
                       /\ UNCHANGED result
                  ELSE ReturnError /\ UNCHANGED wait
       ELSE ReturnOk /\ UNCHANGED <<calls, wait>>
    /\ UNCHANGED <<handler, suspended,
                   diffVars, pwVars, cfgVars, requiresReboot, updatedUsers, dId, isNew,
                   remoteUsers, readVars>>

-----------------------------------------------------------------------------
(* The waits: statusBrokerState polled by retry.StateChangeConf.           *)

\* Pending and Target of waitBrokerCreated, waitBrokerDeleted and
\* waitBrokerRebooted.
PendingStatesWithFailed(kind) ==
    IF kind = "rebooted" THEN {"REBOOT_IN_PROGRESS"}
    ELSE {"CREATION_IN_PROGRESS", "CREATION_FAILED", "DELETION_IN_PROGRESS",
          "REBOOT_IN_PROGRESS", "RUNNING"}
PendingStates(kind) ==
    CASE kind = "created" -> {"CREATION_IN_PROGRESS", "REBOOT_IN_PROGRESS"}
      [] kind = "deleted" -> {"CREATION_FAILED", "DELETION_IN_PROGRESS",
                              "REBOOT_IN_PROGRESS", "RUNNING"}
      [] kind = "rebooted" -> {"REBOOT_IN_PROGRESS"}
      [] OTHER -> {}
TargetStates(kind) ==
    CASE kind = "created" -> {"RUNNING"}
      [] kind = "rebooted" -> {"RUNNING"}
      [] OTHER -> {}

\* What one refresh can come back with: a broker in some state, not found
\* (statusBrokerState turns it into a nil result without error), or an error.
PollAnswers == BrokerStates \cup {"NotFound", "error"}

\* A refresh that finds no broker never ends a wait.
PollVerdictNotFoundPending(kind, answer) ==
    IF answer = "error" THEN "error"
    ELSE IF answer = "NotFound" THEN "pending"
    ELSE IF answer \in TargetStates(kind) THEN "reached"
    ELSE IF answer \in PendingStates(kind) THEN "pending"
    ELSE "unexpected"

\* A refresh that finds no broker counts as a state of neither set.
PollVerdictNotFoundUnexpected(kind, answer) ==
    IF answer = "error" THEN "error"
    ELSE IF answer \in TargetStates(kind) THEN "reached"
    ELSE IF answer \in PendingStates(kind) THEN "pending"
    ELSE "unexpected"

\* A refresh that fails counts as pending, like one that finds no broker.
PollVerdictErrorPending(kind, answer) ==
    IF answer = "error" THEN "pending"
    ELSE IF answer = "NotFound"
         THEN IF TargetStates(kind) = {} THEN "reached" ELSE "pending"
    ELSE IF answer \in TargetStates(kind) THEN "reached"
    ELSE IF answer \in PendingStates(kind) THEN "pending"
    ELSE "unexpected"

\* How the wait goes on after a refresh.
PollVerdict(kind, answer) ==
    IF answer = "error" THEN "error"
    ELSE IF answer = "NotFound"
         THEN IF TargetStates(kind) = {} THEN "reached" ELSE "pending"
    ELSE IF answer \in TargetStates(kind) THEN "reached"
    ELSE IF answer \in PendingStates(kind) THEN "pending"
    ELSE "unexpected"

\* The error WaitForStateContext returns with a verdict.
WaitError(verdict) ==
    CASE verdict = "reached" -> "none"
      [] verdict = "unexpected" -> "UnexpectedStateError"
      [] verdict = "error" -> "refresh error"

WaitPcs == {"crt_wait_created", "upd_wait_rebooted", "del_wait_deleted"}

\* A Create that returns as soon as its wait has.
AfterWaitSkipsRead == ReturnOk

\* Where the handler goes on when its wait returned without error: Create
\* calls resourceBrokerRead, Update and Delete return.
AfterWait ==
    IF pc = "crt_wait_created"
    THEN pc' = "read_find" /\ UNCHANGED result
    ELSE ReturnOk

\* A Rebooted wait that takes RUNNING for pending until a refresh has shown
\* the reboot in progress.
PollRebootSeenFirst ==
    /\ pc \in WaitPcs
    /\ wait.polls < MaxPolls
    /\ \E answer \in PollAnswers :
          /\ calls' = Append(calls, Call("DescribeBroker", dId, answer, {},
                                         answer # "error"))
          /\ LET rebootSeen == \E i \in 1..Len(calls) :
                                  calls[i].target = "REBOOT_IN_PROGRESS"
                 verdict == IF wait.kind = "rebooted" /\ answer = "RUNNING" /\ ~rebootSeen
                            THEN "pending"
                            ELSE PollVerdict(wait.kind, answer)
             IN  IF verdict = "pending"
                 THEN /\ wait' = [wait EXCEPT !.polls = @ + 1]
                      /\ UNCHANGED <<pc, result>>
                 ELSE /\ wait' = WaitEnded(WaitError(verdict))
                      /\ IF verdict = "reached" THEN AfterWait ELSE ReturnError
    /\ UNCHANGED <<handler, suspended,
                   diffVars, pwVars, cfgVars, requiresReboot, updatedUsers, dId, isNew,
                   remoteUsers, readVars>>

\* One refresh of the running wait.
Poll ==
    /\ pc \in WaitPcs
    /\ wait.polls < MaxPolls
    /\ \E answer \in PollAnswers :
          /\ calls' = Append(calls, Call("DescribeBroker", dId, answer, {},
                                         answer # "error"))
          /\ LET verdict == PollVerdict(wait.kind, answer)
             IN  IF verdict = "pending"
                 THEN /\ wait' = [wait EXCEPT !.polls = @ + 1]
                      /\ UNCHANGED <<pc, result>>
                 ELSE /\ wait' = WaitEnded(WaitError(verdict))
                      /\ IF verdict = "reached" THEN AfterWait ELSE ReturnError
    /\ UNCHANGED <<handler, suspended,
                   diffVars, pwVars, cfgVars, requiresReboot, updatedUsers, dId, isNew,
                   remoteUsers, readVars>>

\* A wait whose timeout never elapses.
WaitNeverTimesOut == pc \in WaitPcs /\ FALSE /\ UNCHANGED vars

\* The timeout of the wait elapses while the state is still pending.
WaitTimeout ==
    /\ pc \in WaitPcs
    /\ wait.polls >= MaxPolls
    /\ wait' = WaitEnded("TimeoutError")
    /\ ReturnError
    /\ UNCHANGED <<handler, suspended,
                   diffVars, pwVars, cfgVars, requiresReboot, updatedUsers, dId, isNew,
                   remoteUsers, calls, readVars>>

-----------------------------------------------------------------------------
(* resourceBrokerRead                                                      *)

\* The lists with one block per username, as a remote broker can hold them.
RemoteUserLists == {l \in HandlerUserLists : UniqueNames(l)}

InitRead ==
    /\ handler = "read"
    /\ pc = "read_find"
    /\ oldUsers = <<>>
    /\ newUsers \in HandlerUserLists
    /\ cr = NoResult /\ di = NoResult /\ ur = NoResult
    /\ PasswordIdle
    \* arn is empty in the Read of an import, where only the id is known.
    /\ \E a \in {"", BrokerArn} : cfgOld = [PriorCfg EXCEPT !["arn"] = a]
    /\ cfgNew = cfgOld
    /\ applyImmediately = FALSE /\ userHasChange = FALSE
    /\ requiresReboot = FALSE /\ updatedUsers = FALSE
    /\ dId = BrokerId /\ isNew \in BOOLEAN
    /\ \E l \in RemoteUserLists : remoteUsers \in RemoteStates(l)
    /\ calls = <<>> /\ wait = NoWait
    /\ summaries = <<>> /\ rawUsers = <<>> /\ stateUsers = NoResult
    /\ result = "none"

\* "!d.IsNewResource() && (tfresource.NotFound(err) ||
\* errs.IsA[*types.ForbiddenException](err))"
SignalsRemovalOnNotFoundOnly(new, answer) == ~new /\ answer = "NotFound"
SignalsRemovalOfNewToo(new, answer) == answer \in {"NotFound", "Forbidden"}
SignalsRemoval(new, answer) == ~new /\ answer \in {"NotFound", "Forbidden"}

\* findBrokerByID and the test that follows it; on success the attributes
\* are set from the output (here arn), and output.Users lists the broker's
\* users in an order of the service's choosing.
ReadFind ==
    /\ pc = "read_find"
    /\ \E answer \in {"found", "NotFound", "Forbidden", "error"} :
          /\ calls' = Append(calls, Call("DescribeBroker", dId, answer, {},
                                         answer = "found"))
          /\ IF SignalsRemoval(isNew, answer)
             THEN dId' = "" /\ ReturnOk /\ UNCHANGED <<summaries, cfgNew>>
             ELSE IF answer # "found"
             THEN ReturnError /\ UNCHANGED <<dId, summaries, cfgNew>>
             ELSE /\ cfgNew' = [cfgNew EXCEPT !["arn"] = BrokerArn]
                  /\ summaries' \in Perms(DOMAIN remoteUsers)
                  /\ pc' = "read_describe_users"
                  /\ UNCHANGED <<dId, result>>
    /\ UNCHANGED <<handler, suspended,
                   diffVars, pwVars, cfgOld, applyImmediately, userHasChange,
                   requiresReboot, updatedUsers, isNew, remoteUsers, wait, rawUsers,
                   stateUsers>>

\* The types.User expandUsersForBroker builds from a DescribeUser output.
RawUser(remote, n) ==
    [Username |-> n,
     ConsoleAccess |-> remote[n].console_access,
     ReplicationUser |-> remote[n].replication_user,
     Groups |-> SortByCode(remote[n].groups)]

\* expandUsersForBroker going on to the next summary after a DescribeUser
\* that failed.
ReadDescribeUserSkipsFailed ==
    /\ pc = "read_describe_users"
    /\ IF summaries = <<>>
       THEN /\ pc' = "read_set_user"
            /\ UNCHANGED <<summaries, rawUsers, calls, result>>
       ELSE \E ok \in BOOLEAN :
               /\ calls' = Append(calls, Call("DescribeUser", dId, Head(summaries), {}, ok))
               /\ rawUsers' = IF ok
                              THEN Append(rawUsers, RawUser(remoteUsers, Head(summaries)))
                              ELSE rawUsers
               /\ summaries' = Tail(summaries)
               /\ UNCHANGED <<pc, result>>
    /\ UNCHANGED <<handler, suspended,
                   diffVars, pwVars, cfgVars, requiresReboot, updatedUsers, dId, isNew,
                   remoteUsers, wait, stateUsers>>

\* expandUsersForBroker: one DescribeUser per summary.
ReadDescribeUser ==
    /\ pc = "read_describe_users"
    /\ IF summaries = <<>>
       THEN /\ pc' = "read_set_user"
            /\ UNCHANGED <<summaries, rawUsers, calls, result>>
       ELSE \E ok \in BOOLEAN :
               /\ calls' = Append(calls, Call("DescribeUser", dId, Head(summaries), {}, ok))
               /\ IF ok
                  THEN /\ rawUsers' = Append(rawUsers, RawUser(remoteUsers, Head(summaries)))
                       /\ summaries' = Tail(summaries)
                       /\ UNCHANGED <<pc, result>>
                  ELSE ReturnError /\ UNCHANGED <<summaries, rawUsers>>
    /\ UNCHANGED <<handler, suspended,
                   diffVars, pwVars, cfgVars, requiresReboot, updatedUsers, dId, isNew,
                   remoteUsers, wait, stateUsers>>

\* existingPairs of flattenUsers after cfgUsers[1..k]: the password under
\* each username, a later block replacing an earlier one.
RECURSIVE ExistingPairs(_, _)
ExistingPairs(cfgUsers, k) ==
    IF k = 0 THEN [n \in {} |-> ""]
    ELSE LET prev == ExistingPairs(cfgUsers, k - 1)
             u == cfgUsers[k]
         IN  [n \in DOMAIN prev \cup {u.username} |->
                 IF n = u.username THEN u.password ELSE prev[n]]

\* The map flattenUsers builds for one user: a key is present only if set.
FlattenUser(u, pairs) ==
    LET pw == IF u.Username \in DOMAIN pairs THEN pairs[u.Username] ELSE ""
    IN  [username |-> u.Username,
         console_access |-> u.ConsoleAccess,
         replication_user |-> u.ReplicationUser]
        @@ (IF pw # "" THEN [password |-> pw] ELSE <<>>)
        @@ (IF Len(u.Groups) > 0 THEN [groups |-> u.Groups] ELSE <<>>)

\* flattenUsers taking each password from the block at the same position.
FlattenUsersByPosition(users, cfgUsers) ==
    [i \in 1..Len(users) |->
        FlattenUser(users[i],
                    IF i <= Len(cfgUsers)
                    THEN [n \in {users[i].Username} |-> cfgUsers[i].password]
                    ELSE [n \in {} |-> ""])]
\* flattenUsers keeping, after the users read, the configured blocks of the
\* usernames that were not read.
FlattenUsersKeepsDeclared(users, cfgUsers) ==
    LET read == {users[i].Username : i \in 1..Len(users)}
        IsLeft(u) == u.username \notin read
        left == SelectSeq(cfgUsers, IsLeft)
    IN  [i \in 1..Len(users) |->
            FlattenUser(users[i], ExistingPairs(cfgUsers, Len(cfgUsers)))]
        \o [i \in 1..Len(left) |->
               [username |-> left[i].username,
                console_access |-> left[i].console_access,
                replication_user |-> left[i].replication_user,
                password |-> left[i].password]]

\* flattenUsers: the maps handed to schema.NewSet, in the order of users.
FlattenUsers(users, cfgUsers) ==
    [i \in 1..Len(users) |->
        FlattenUser(users[i], ExistingPairs(cfgUsers, Len(cfgUsers)))]

\* d.Set("user", flattenUsers(rawUsers, d.Get("user").(*schema.Set).List()))
ReadSetUser ==
    /\ pc = "read_set_user"
    /\ stateUsers' = FlattenUsers(rawUsers, newUsers)
    /\ ReturnOk
    /\ UNCHANGED <<handler, suspended,
                   diffVars, pwVars, cfgVars, requiresReboot, updatedUsers, dId, isNew,
                   remoteUsers, calls, wait, summaries, rawUsers>>

-----------------------------------------------------------------------------
(* resourceBrokerCreate                                                    *)

InitCreate ==
    /\ handler = "create"
    /\ pc = "crt_create_broker"
    /\ oldUsers = <<>>
    /\ newUsers \in HandlerUserLists
    /\ cr = NoResult /\ di = NoResult /\ ur = NoResult
    /\ PasswordIdle
    /\ \E e \in EngineTypes :
          cfgNew = [PriorCfg EXCEPT !["engine_type"] = e, !["arn"] = ""]
    /\ cfgOld = cfgNew
    /\ applyImmediately = FALSE /\ userHasChange = FALSE
    /\ requiresReboot = FALSE /\ updatedUsers = FALSE
    /\ dId = "" /\ isNew = TRUE
    /\ remoteUsers = NoUsers
    /\ calls = <<>> /\ wait = NoWait
    /\ summaries = <<>> /\ rawUsers = <<>> /\ stateUsers = NoResult
    /\ result = "none"

\* The members of mq.CreateBrokerInput that are set whatever the
\* configuration is.
CreateBrokerFields ==
    {"AutoMinorVersionUpgrade", "BrokerName", "CreatorRequestId", "EngineType",
     "EngineVersion", "HostInstanceType", "PubliclyAccessible", "Tags", "Users"}

\* The users DescribeBroker lists for a broker created with the given
\* "user" set: none for RabbitMQ ("User list is not returned back after
\* creation").
CreatedUsers(engineType, users) ==
    IF EqualFold(engineType, EngineTypeRabbitmq) THEN {NoUsers} ELSE RemoteStates(users)

\* conn.CreateBroker and the start of waitBrokerCreated, with d.SetId and
\* d.Set("arn") left for after the wait.
CrtCreateBrokerWaitsFirst ==
    /\ pc = "crt_create_broker"
    /\ \E ok \in BOOLEAN :
          /\ calls' = Append(calls, Call("CreateBroker", "", cfgNew["engine_type"],
                                         CreateBrokerFields, ok))
          /\ IF ok
             THEN /\ remoteUsers' \in CreatedUsers(cfgNew["engine_type"], newUsers)
                  /\ wait' = WaitStarted("created")
                  /\ pc' = "crt_wait_created"
                  /\ UNCHANGED <<dId, cfgNew, result>>
             ELSE ReturnError /\ UNCHANGED <<dId, cfgNew, remoteUsers, wait>>
    /\ UNCHANGED <<handler, suspended,
                   diffVars, pwVars, cfgOld, applyImmediately, userHasChange,
                   requiresReboot, updatedUsers, isNew, readVars>>

\* conn.CreateBroker, then d.SetId and d.Set("arn") and the start of
\* waitBrokerCreated.
CrtCreateBroker ==
    /\ pc = "crt_create_broker"
    /\ \E ok \in BOOLEAN :
          /\ calls' = Append(calls, Call("CreateBroker", "", cfgNew["engine_type"],
                                         CreateBrokerFields, ok))
          /\ IF ok
             THEN /\ dId' = BrokerId
                  /\ cfgNew' = [cfgNew EXCEPT !["arn"] = BrokerArn]
                  /\ remoteUsers' \in CreatedUsers(cfgNew["engine_type"], newUsers)
                  /\ wait' = WaitStarted("created")
                  /\ pc' = "crt_wait_created"
                  /\ UNCHANGED result
             ELSE ReturnError /\ UNCHANGED <<dId, cfgNew, remoteUsers, wait>>
    /\ UNCHANGED <<handler, suspended,
                   diffVars, pwVars, cfgOld, applyImmediately, userHasChange,
                   requiresReboot, updatedUsers, isNew, readVars>>

-----------------------------------------------------------------------------
(* The CreatorRequestId of successive calls of resourceBrokerCreate        *)

MaxStamp == 4
BrokerNames == {"orders", "billing"}

\* An id helper that returns the prefix alone.
PrefixedIdNoSuffix(prefix, stamp) == <<prefix, 0>>

\* id.PrefixedUniqueId: the prefix followed by a suffix made of the time and
\* a counter, here the stamp, which is new at every call.
PrefixedUniqueId(prefix, stamp) == <<prefix, stamp>>

\* fmt.Sprintf("tf-%s", name)
TokenPrefix(name) == <<"tf-", name>>

\* The stamp of the id generated last.
LastStamp == IF calls = <<>> THEN 0 ELSE calls[Len(calls)].stamp

CreateBrokerRequest(name, stamp, ok) ==
    [api |-> "CreateBroker", BrokerId |-> "", target |-> name,
     fields |-> CreateBrokerFields, ok |-> ok, stamp |-> stamp,
     CreatorRequestId |-> PrefixedUniqueId(TokenPrefix(name), stamp)]

InitToken ==
    /\ handler = "create"
    /\ pc = "create_input"
    /\ oldUsers = <<>> /\ newUsers = <<>>
    /\ cr = NoResult /\ di = NoResult /\ ur = NoResult
    /\ PasswordIdle /\ HandlerIdle

\* One more call of resourceBrokerCreate, for any broker name: the input is
\* built with a newly generated id and sent.
CreateInput ==
    /\ pc = "create_input"
    /\ \E name \in BrokerNames, stamp \in (LastStamp + 1)..MaxStamp, ok \in BOOLEAN :
          calls' = Append(calls, CreateBrokerRequest(name, stamp, ok))
    /\ UNCHANGED <<handler, suspended,
                   pc, diffVars, pwVars, cfgVars, requiresReboot, updatedUsers,
                   dId, isNew, remoteUsers, wait, readVars, result>>

NextToken == CreateInput

SpecToken == InitToken /\ [][NextToken]_vars

-----------------------------------------------------------------------------
(* resourceBrokerDelete                                                    *)

InitDelete ==
    /\ handler = "delete"
    /\ pc = "del_delete_broker"
    /\ oldUsers = <<>>
    /\ newUsers \in HandlerUserLists
    /\ cr = NoResult /\ di = NoResult /\ ur = NoResult
    /\ PasswordIdle
    /\ cfgOld \in PriorCfgs /\ cfgNew = cfgOld
    /\ applyImmediately = FALSE /\ userHasChange = FALSE
    /\ requiresReboot = FALSE /\ updatedUsers = FALSE
    /\ dId = BrokerId /\ isNew = FALSE
    /\ remoteUsers \in RemoteStates(newUsers)
    /\ calls = <<>> /\ wait = NoWait
    /\ summaries = <<>> /\ rawUsers = <<>> /\ stateUsers = NoResult
    /\ result = "none"

\* What resourceBrokerDelete does with the answer of conn.DeleteBroker.
DeleteOutcomeNotFoundFails(answer) ==
    IF answer = "deleted" THEN "wait" ELSE "error"
DeleteOutcome(answer) ==
    CASE answer = "NotFound" -> "ok"
      [] answer = "error" -> "error"
      [] answer = "deleted" -> "wait"

\* conn.DeleteBroker and the tests of its error, then the start of
\* waitBrokerDeleted.
DelDeleteBroker ==
    /\ pc = "del_delete_broker"
    /\ \E answer \in {"deleted", "NotFound", "error"} :
          /\ calls' = Append(calls, Call("DeleteBroker", dId, answer, {},
                                         answer = "deleted"))
          /\ IF DeleteOutcome(answer) = "ok"
             THEN ReturnOk /\ UNCHANGED wait
             ELSE IF DeleteOutcome(answer) = "error"
             THEN ReturnError /\ UNCHANGED wait
             ELSE /\ wait' = WaitStarted("deleted")
                  /\ pc' = "del_wait_deleted"
                  /\ UNCHANGED result
    /\ UNCHANGED <<handler, suspended,
                   diffVars, pwVars, cfgVars, requiresReboot, updatedUsers, dId,
                   isNew, remoteUsers, readVars>>

-----------------------------------------------------------------------------
(* The handlers, each run from every input of the model.                   *)

InitHandler == InitUpdate \/ InitRead \/ InitCreate \/ InitDelete

Init == InitHandler /\ suspended = NoPass

Next ==
    \/ UpdSecurityGroups
    \/ UpdConfiguration
    \/ UpdUsers
    \/ UpdCreateUser
    \/ UpdDeleteUser
    \/ UpdUpdateUser
    \/ UpdHostInstanceType
    \/ UpdAutoMinorVersionUpgrade
    \/ UpdMaintenanceWindow
    \/ UpdReboot
    \/ Poll
    \/ WaitTimeout
    \/ ReadFind
    \/ ReadDescribeUser
    \/ ReadSetUser
    \/ CrtCreateBroker
    \/ DelDeleteBroker

Spec == Init /\ [][Next]_vars

\* The handlers run to their end: each is sequential code that takes its
\* next step, and the timer of a wait fires.  The inputs are narrowed to user
\* sets of at most one block and to plans that change host_instance_type at
\* most.
InitFair ==
    /\ Init
    /\ Len(oldUsers) <= 1 /\ Len(newUsers) <= 1
    /\ \A k \in CfgKeys \ {"host_instance_type"} : cfgNew[k] = cfgOld[k]

FairSpec == InitFair /\ [][Next]_vars /\ WF_vars(Next)

-----------------------------------------------------------------------------
(* Create and Update from the configuration on: the ValidateFunc of         *)
(* "password" runs on every user block before a handler is called.        *)

\* The text of the passwords the user blocks name.  "S" is too short; "W"
\* has 11 characters, one of them outside ASCII.
PasswordText(p) ==
    CASE p = "P" -> <<"a", "b", "c", "d">> \o [i \in 1..8 |-> "a"]
      [] p = "Q" -> <<"a", "b", "c", "d">> \o [i \in 1..8 |-> "d"]
      [] p = "S" -> <<"a", "b", "c", "d">>
      [] p = "W" -> <<"e_acute", "b", "c", "d">> \o [i \in 1..7 |-> "a"]

\* Configurations of users with the passwords "S" and "W".
ConfigOnlyBlocks == {[DefaultBlock("bob") EXCEPT !.password = p] : p \in {"S", "W"}}
ConfigUserLists ==
    HandlerUserLists
    \cup {SortUsers(S \cup {b}) : S \in {{}, {DefaultBlock("carol")}}, b \in ConfigOnlyBlocks}

ConfigPasswords(config) == [i \in 1..Len(config) |-> PasswordText(config[i].password)]

\* The errors of the ValidateFunc over the passwords of all user blocks.
RECURSIVE SchemaErrors(_)
SchemaErrors(texts) ==
    IF texts = <<>> THEN <<>>
    ELSE ValidBrokerPassword(Head(texts)) \o SchemaErrors(Tail(texts))

\* Create or Update of a configuration not yet validated.
InitConfig ==
    /\ handler \in {"create", "update"}
    /\ pc = "schema_validate"
    /\ oldUsers \in IF handler = "create" THEN {<<>>} ELSE HandlerUserLists
    /\ cfgOld \in IF handler = "create"
                  THEN {[c EXCEPT !["arn"] = ""] : c \in PriorCfgs}
                  ELSE PriorCfgs
    /\ cfgNew \in IF handler = "create"
                  THEN {cfgOld}
                  ELSE {cfgOld, [cfgOld EXCEPT !["host_instance_type"] = "v1"]}
    /\ \E config \in ConfigUserLists :
          /\ newUsers = PlannedUsers(cfgNew["engine_type"], cfgNew["arn"], oldUsers, config)
          /\ password = ConfigPasswords(config)
    /\ pwErrors = NotValidated
    /\ cr = NoResult /\ di = NoResult /\ ur = NoResult
    /\ applyImmediately \in IF handler = "create" THEN {FALSE} ELSE BOOLEAN
    /\ userHasChange = (handler = "update")
    /\ requiresReboot = FALSE /\ updatedUsers = FALSE
    /\ dId = (IF handler = "create" THEN "" ELSE BrokerId)
    /\ isNew = (handler = "create")
    /\ remoteUsers \in IF handler = "create" THEN {NoUsers} ELSE RemoteStates(oldUsers)
    /\ calls = <<>> /\ wait = NoWait
    /\ summaries = <<>> /\ rawUsers = <<>> /\ stateUsers = NoResult
    /\ result = "none"
    /\ suspended = NoPass

\* Schema validation: with an error of any ValidateFunc the operation ends
\* there and no handler is called.
SchemaValidate ==
    /\ pc = "schema_validate"
    /\ pwErrors' = SchemaErrors(password)
    /\ IF pwErrors' = <<>>
       THEN /\ pc' = (IF handler = "create" THEN "crt_create_broker"
                                            ELSE "upd_security_groups")
            /\ UNCHANGED result
       ELSE ReturnError
    /\ UNCHANGED <<handler, suspended,
                   password, diffVars, cfgVars, requiresReboot, updatedUsers,
                   dId, isNew, remoteUsers, calls, wait, readVars>>

NextConfig ==
    \/ SchemaValidate
    \/ UpdSecurityGroups
    \/ UpdConfiguration
    \/ UpdUsers
    \/ UpdCreateUser
    \/ UpdDeleteUser
    \/ UpdUpdateUser
    \/ UpdHostInstanceType
    \/ UpdAutoMinorVersionUpgrade
    \/ UpdMaintenanceWindow
    \/ UpdReboot
    \/ Poll
    \/ WaitTimeout
    \/ ReadFind
    \/ ReadDescribeUser
    \/ ReadSetUser
    \/ CrtCreateBroker

SpecConfig == InitConfig /\ [][NextConfig]_vars

-----------------------------------------------------------------------------
(* Two passes, for two brokers, that take their steps in any order         *)

OtherBrokerId == "b-2"

\* The state of the pass that takes the steps.
PassState ==
    [handler |-> handler, pc |-> pc, oldUsers |-> oldUsers, newUsers |-> newUsers,
     cr |-> cr, di |-> di, ur |-> ur, cfgOld |-> cfgOld, cfgNew |-> cfgNew,
     applyImmediately |-> applyImmediately, userHasChange |-> userHasChange,
     requiresReboot |-> requiresReboot, updatedUsers |-> updatedUsers,
     dId |-> dId, isNew |-> isNew, remoteUsers |-> remoteUsers, calls |-> calls,
     wait |-> wait, summaries |-> summaries, rawUsers |-> rawUsers,
     stateUsers |-> stateUsers, result |-> result]

\* An Update for the other broker that has taken no step yet.
OtherStart(old, new, remote) ==
    [handler |-> "update", pc |-> "upd_security_groups",
     oldUsers |-> old, newUsers |-> new,
     cr |-> NoResult, di |-> NoResult, ur |-> NoResult,
     cfgOld |-> PriorCfg,
     cfgNew |-> [PriorCfg EXCEPT !["host_instance_type"] = "v1"],
     applyImmediately |-> FALSE, userHasChange |-> TRUE,
     requiresReboot |-> FALSE, updatedUsers |-> FALSE,
     dId |-> OtherBrokerId, isNew |-> FALSE, remoteUsers |-> remote, calls |-> <<>>,
     wait |-> NoWait, summaries |-> <<>>, rawUsers |-> <<>>,
     stateUsers |-> NoResult, result |-> "none"]

\* The other pass: an Update that changes host_instance_type and replaces
\* user carol by user bob.
OtherPasses ==
    LET carol == <<DefaultBlock("carol")>>
        bob == <<[DefaultBlock("bob") EXCEPT !.groups = SchemaSet(<<>>)]>>
    IN  {OtherStart(carol, bob, r) : r \in RemoteStates(carol)}

\* The inputs of the first pass are narrowed to one engine type, to user
\* sets of at most one block and to plans that change host_instance_type at
\* most.
InitPasses ==
    /\ InitHandler
    /\ cfgOld["engine_type"] = PriorCfg["engine_type"]
    /\ Len(oldUsers) <= 1 /\ Len(newUsers) <= 1
    /\ \A k \in CfgKeys \ {"host_instance_type"} : cfgNew[k] = cfgOld[k]
    /\ suspended \in OtherPasses

\* The scheduler lets the other goroutine run: the two passes change places.
Switch ==
    /\ suspended # NoPass
    /\ suspended' = PassState
    /\ handler' = suspended.handler
    /\ pc' = suspended.pc
    /\ oldUsers' = suspended.oldUsers
    /\ newUsers' = suspended.newUsers
    /\ cr' = suspended.cr
    /\ di' = suspended.di
    /\ ur' = suspended.ur
    /\ cfgOld' = suspended.cfgOld
    /\ cfgNew' = suspended.cfgNew
    /\ applyImmediately' = suspended.applyImmediately
    /\ userHasChange' = suspended.userHasChange
    /\ requiresReboot' = suspended.requiresReboot
    /\ updatedUsers' = suspended.updatedUsers
    /\ dId' = suspended.dId
    /\ isNew' = suspended.isNew
    /\ remoteUsers' = suspended.remoteUsers
    /\ calls' = suspended.calls
    /\ wait' = suspended.wait
    /\ summaries' = suspended.summaries
    /\ rawUsers' = suspended.rawUsers
    /\ stateUsers' = suspended.stateUsers
    /\ result' = suspended.result
    /\ UNCHANGED pwVars

NextPasses == Switch \/ Next

SpecPasses == InitPasses /\ [][NextPasses]_vars

-----------------------------------------------------------------------------
(* DiffBrokerUsers and updateBrokerUsers called with lists outside the       *)
(* schema: an entry may lack the key "username".                            *)

\* The entry without its "username" key.
WithoutUsername(u) == [k \in DOMAIN u \ {"username"} |-> u[k]]
DropUsernameAt(users, i) ==
    [j \in 1..Len(users) |-> IF j = i THEN WithoutUsername(users[j]) ELSE users[j]]

\* A list of the handlers' with at most one entry stripped of its username.
ContractLists ==
    {DropUsernameAt(l, i) : l \in HandlerUserLists, i \in 0..MaxUsers}

\* The entries on which u["username"].(string) panics: the key is missing,
\* the value is nil, and the assertion has no second result.
MissingUsername(users) == {i \in 1..Len(users) : "username" \notin DOMAIN users[i]}
Panics(old, new) == MissingUsername(old) \cup MissingUsername(new) # {}

\* The old list when DiffBrokerUsers has panicked: the first loop converted
\* the groups of the entries before the first one without a username.
OldAfterPanic(old) ==
    IF MissingUsername(old) = {} THEN OldAfterDiff(old)
    ELSE LET k == CHOOSE i \in MissingUsername(old) :
                     \A j \in MissingUsername(old) : i <= j
         IN  [i \in 1..Len(old) |-> IF i < k THEN ConvertGroups(old[i]) ELSE old[i]]

HasUsername(u) == "username" \in DOMAIN u

InitContract ==
    /\ \/ handler = "diff" /\ pc = "diff" /\ userHasChange = FALSE
       \/ handler = "users" /\ pc = "upd_users" /\ userHasChange = TRUE
    /\ oldUsers \in ContractLists
    /\ newUsers \in ContractLists
    /\ cr = NoResult /\ di = NoResult /\ ur = NoResult
    /\ PasswordIdle
    /\ cfgOld = PriorCfg /\ cfgNew = PriorCfg
    /\ applyImmediately = FALSE
    /\ requiresReboot = FALSE /\ updatedUsers = FALSE
    /\ dId = BrokerId /\ isNew = FALSE
    /\ remoteUsers \in RemoteStates(SelectSeq(oldUsers, HasUsername))
    /\ calls = <<>> /\ wait = NoWait
    /\ summaries = <<>> /\ rawUsers = <<>> /\ stateUsers = NoResult
    /\ result = "none"
    /\ suspended = NoPass

\* A failed type assertion panics and unwinds the callers: nothing is
\* returned and nothing after the call runs.
\* DiffBrokerUsers on any list of maps.
DiffChecked ==
    /\ pc = "diff"
    /\ IF Panics(oldUsers, newUsers)
       THEN /\ pc' = "panic"
            /\ oldUsers' = OldAfterPanic(oldUsers)
            /\ UNCHANGED <<handler, suspended, newUsers, cr, di, ur, pwVars, handlerVars>>
       ELSE Diff

\* updateBrokerUsers dropping the entries without a username before it
\* diffs the lists.
UpdUsersSkipsMalformed ==
    /\ pc = "upd_users"
    /\ \E r \in DiffBrokerUsers(dId, SelectSeq(oldUsers, HasUsername),
                                SelectSeq(newUsers, HasUsername)) :
          cr' = r.cr /\ di' = r.di /\ ur' = r.ur
    /\ pc' = "upd_create_users"
    /\ updatedUsers' = FALSE
    /\ UNCHANGED <<handler, suspended,
                   oldUsers, newUsers, pwVars, cfgVars, requiresReboot, dId, isNew,
                   remoteUsers, calls, wait, readVars, result>>

\* updateBrokerUsers up to the return of DiffBrokerUsers, on any list of maps.
UpdUsersChecked ==
    /\ pc = "upd_users"
    /\ IF Panics(oldUsers, newUsers)
       THEN /\ pc' = "panic"
            /\ oldUsers' = OldAfterPanic(oldUsers)
            /\ UNCHANGED <<handler, suspended, newUsers, cr, di, ur, pwVars, handlerVars>>
       ELSE UpdUsers

NextContract ==
    \/ DiffChecked
    \/ UpdUsersChecked
    \/ UpdCreateUser
    \/ UpdDeleteUser
    \/ UpdUpdateUser

SpecContract == InitContract /\ [][NextContract]_vars

-----------------------------------------------------------------------------
(* expandLogs and the Logs member of CreateBroker and UpdateBroker          *)

\* A pointer member of an input: nil, or the address of a value.
NilPtr == [isNil |-> TRUE]
Ptr(v) == [isNil |-> FALSE, v |-> v]

\* The texts ValidateTypeStringNullableBool lets through as logs.audit.
AuditTexts == {"", "true", "false", "1", "0"}

\* nullable.Bool(text).Value(): the empty text is null, any other is parsed
\* as strconv.ParseBool does.
NullableBoolValue(text) ==
    [null |-> text = "", value |-> text \in {"true", "1"}]

\* The element of the "logs" list written as an empty block: nil.
NilBlock == [isNil |-> TRUE]
LogsBlocks == [general : BOOLEAN, audit : AuditTexts]
\* d.Get("logs"): no block, an empty block, or one block with both keys.
LogsConfigs == {<<>>, <<NilBlock>>} \cup {<<b>> : b \in LogsBlocks}

\* expandLogs without the test of the engine type.
ExpandLogsAnyEngine(engineType, l) ==
    IF Len(l) = 0 \/ l[1] = NilBlock THEN NilPtr
    ELSE LET m == l[1]
             a == NullableBoolValue(m.audit)
         IN  Ptr([General |-> Ptr(m.general),
                  Audit |-> IF ~a.null THEN Ptr(a.value) ELSE NilPtr])

ExpandLogs(engineType, l) ==
    IF Len(l) = 0 \/ l[1] = NilBlock THEN NilPtr
    ELSE LET m == l[1]
             a == NullableBoolValue(m.audit)
         IN  Ptr([General |-> Ptr(m.general),
                  Audit |-> IF ~a.null /\ ~EqualFold(engineType, EngineTypeRabbitmq)
                            THEN Ptr(a.value)
                            ELSE NilPtr])

\* d.GetOk("logs") with the two tests that follow it.
LogsConfigured(l) == Len(l) > 0 /\ l[1] # NilBlock

\* A call of CreateBroker or UpdateBroker with its Logs member.
LogsCall(api, id, target, logs, ok) ==
    [api |-> api, BrokerId |-> id, target |-> target,
     fields |-> {"Logs"}, ok |-> ok, Logs |-> logs]

\* The plans with a "logs" list: a Create, or an Update in which logs, the
\* engine version or neither has changed.
InitLogs ==
    /\ handler \in {"create", "update"}
    /\ pc = "customize_diff"
    /\ oldUsers = <<>> /\ newUsers = <<>>
    /\ cr = NoResult /\ di = NoResult /\ ur = NoResult
    /\ PasswordIdle
    /\ \E e \in EngineTypes, l \in LogsConfigs :
          /\ cfgNew = [PriorCfg EXCEPT !["engine_type"] = e, !["logs"] = l,
                                       !["arn"] = IF handler = "create" THEN "" ELSE BrokerArn]
          /\ IF handler = "create" THEN cfgOld = cfgNew
             ELSE \E lo \in {l, <<>>}, v \in {"v0", "v1"} :
                     cfgOld = [cfgNew EXCEPT !["logs"] = lo, !["engine_version"] = v]
    /\ applyImmediately = FALSE /\ userHasChange = FALSE
    /\ requiresReboot = FALSE /\ updatedUsers = FALSE
    /\ dId = (IF handler = "create" THEN "" ELSE BrokerId)
    /\ isNew = (handler = "create")
    /\ remoteUsers = NoUsers
    /\ calls = <<>> /\ wait = NoWait
    /\ summaries = <<>> /\ rawUsers = <<>> /\ stateUsers = NoResult
    /\ result = "none"
    /\ suspended = NoPass

\* The CustomizeDiff of the resource: for RabbitMQ a logs.audit that is set
\* and true fails the plan, and no handler runs.
CustomizeDiff ==
    /\ pc = "customize_diff"
    /\ LET l == cfgNew["logs"]
           audit == IF LogsConfigured(l) THEN l[1].audit ELSE ""
       IN  IF /\ EqualFold(cfgNew["engine_type"], EngineTypeRabbitmq)
              /\ audit # ""
              /\ NullableBoolValue(audit).value
           THEN ReturnError
           ELSE /\ pc' = (IF handler = "create" THEN "crt_logs_input" ELSE "upd_logs_input")
                /\ UNCHANGED result
    /\ UNCHANGED <<handler, suspended, diffVars, pwVars, cfgVars, requiresReboot,
                   updatedUsers, dId, isNew, remoteUsers, calls, wait, readVars>>

\* resourceBrokerCreate: input.Logs is set when "logs" has a block, and the
\* input goes to CreateBroker.
CrtLogsInput ==
    /\ pc = "crt_logs_input"
    /\ \E ok \in BOOLEAN :
          /\ calls' = Append(calls,
                LogsCall("CreateBroker", "", cfgNew["engine_type"],
                         IF LogsConfigured(cfgNew["logs"])
                         THEN ExpandLogs(cfgNew["engine_type"], cfgNew["logs"])
                         ELSE NilPtr,
                         ok))
          /\ IF ok THEN ReturnOk ELSE ReturnError
    /\ UNCHANGED <<handler, suspended, diffVars, pwVars, cfgVars, requiresReboot,
                   updatedUsers, dId, isNew, remoteUsers, wait, readVars>>

\* resourceBrokerUpdate: the UpdateBroker of configuration, logs and engine
\* version carries expandLogs of "logs" whichever of the three has changed.
UpdLogsInput ==
    /\ pc = "upd_logs_input"
    /\ IF HasChanges({"configuration", "logs", "engine_version"})
       THEN \E ok \in BOOLEAN :
               /\ calls' = Append(calls,
                     LogsCall("UpdateBroker", dId, "configuration",
                              ExpandLogs(cfgNew["engine_type"], cfgNew["logs"]), ok))
               /\ IF ok THEN ReturnOk ELSE ReturnError
       ELSE ReturnOk /\ UNCHANGED calls
    /\ UNCHANGED <<handler, suspended, diffVars, pwVars, cfgVars, requiresReboot,
                   updatedUsers, dId, isNew, remoteUsers, wait, readVars>>

NextLogs == CustomizeDiff \/ CrtLogsInput \/ UpdLogsInput

SpecLogs == InitLogs /\ [][NextLogs]_vars

-----------------------------------------------------------------------------
(* Properties of Update and Read, under Spec.                              *)

UpdateDone == handler = "update" /\ pc = "done"
ReadDone == handler = "read" /\ pc = "done"
AllCallsOk == \A i \in 1..Len(calls) : calls[i].ok
CallsOf(api) == {i \in 1..Len(calls) : calls[i].api = api}
UserCallApis == {"CreateUser", "DeleteUser", "UpdateUser"}
UserCalls == {i \in 1..Len(calls) : calls[i].api \in UserCallApis}

\* updateBrokerUsers has returned without error.
UsersApplied == handler = "update" /\ userHasChange /\ pc = "upd_host_instance_type"

\* The remote users are those of the list, field by field.
RemoteEquals(users) ==
    /\ DOMAIN remoteUsers = Names(users)
    /\ \A i \in 1..Len(users) :
          remoteUsers[users[i].username] = RemoteUserOfBlock(users[i])

\* C4: from remote users equal to old (old then has one block per username,
\* and Init starts the remote side from it), once every operation of
\* DiffBrokerUsers(old, new) has been applied with success the remote users
\* equal new: the same usernames, each with the flags, password and group set
\* of its new block.
C4_ApplyDiffYieldsNew ==
    (UsersApplied /\ UniqueNames(oldUsers)) => RemoteEquals(newUsers)

\* A pass that created, deleted and updated a user.
C4_Witness ==
    /\ UsersApplied /\ UniqueNames(oldUsers)
    /\ CallsOf("CreateUser") # {} /\ CallsOf("DeleteUser") # {}
    /\ CallsOf("UpdateUser") # {}

\* The passwords the prior state declares for a username.
DeclaredPasswords(n) ==
    {newUsers[j].password : j \in {k \in 1..Len(newUsers) : newUsers[k].username = n}}

ReadWroteUsers == ReadDone /\ result = "ok" /\ dId # ""

\* C5: after a Read that found the broker, the user value written to the
\* state has one entry per remote user; the entry carries a password the
\* prior state declared for that username, and has no password key when the
\* prior state has no block of that username.
C5_PasswordMerge ==
    ReadWroteUsers =>
        /\ {stateUsers[i].username : i \in 1..Len(stateUsers)} = DOMAIN remoteUsers
        /\ Len(stateUsers) = Cardinality(DOMAIN remoteUsers)
        /\ \A i \in 1..Len(stateUsers) :
              IF DeclaredPasswords(stateUsers[i].username) = {}
              THEN "password" \notin DOMAIN stateUsers[i]
              ELSE /\ "password" \in DOMAIN stateUsers[i]
                   /\ stateUsers[i].password \in DeclaredPasswords(stateUsers[i].username)

\* A Read that merged the password "Q" into one user and left another user,
\* unknown to the prior state, without password.
C5_Witness ==
    /\ ReadWroteUsers
    /\ \E i, j \in 1..Len(stateUsers) :
          /\ "password" \in DOMAIN stateUsers[i] /\ stateUsers[i].password = "Q"
          /\ "password" \notin DOMAIN stateUsers[j]

\* A call of the pass that sets requiresReboot went through.
RebootRequiringApplied ==
    \E i \in 1..Len(calls) :
        /\ calls[i].ok
        /\ \/ calls[i].api = "UpdateBroker" /\ calls[i].target # "security_groups"
           \/ calls[i].api \in UserCallApis

\* C7: in an Update whose remote calls all succeed, RebootBroker is issued
\* exactly when apply_immediately is set and a call other than the security
\* group update was applied, and only polls of the Rebooted wait follow it;
\* without apply_immediately no RebootBroker is ever issued and such an
\* Update returns without error.
C7_RebootIffApplyAndRequired ==
    /\ (UpdateDone /\ AllCallsOk) =>
          (CallsOf("RebootBroker") # {} <=> (applyImmediately /\ RebootRequiringApplied))
    /\ (UpdateDone /\ result = "ok") =>
          \A i \in CallsOf("RebootBroker") :
              /\ i < Len(calls)
              /\ \A j \in (i + 1)..Len(calls) : calls[j].api = "DescribeBroker"
              /\ calls[Len(calls)].target = "RUNNING"
    /\ (handler = "update" /\ ~applyImmediately) => CallsOf("RebootBroker") = {}
    /\ (UpdateDone /\ AllCallsOk /\ ~applyImmediately) => result = "ok"

\* An Update that rebooted after user operations alone and returned success.
C7_Witness ==
    /\ UpdateDone /\ result = "ok" /\ CallsOf("RebootBroker") # {}
    /\ CallsOf("UpdateBroker") = {} /\ UserCalls # {}

UsersUnchanged == CanonSet(oldUsers) = CanonSet(newUsers)

OnlySecurityGroupsChanged ==
    /\ handler = "update"
    /\ \A k \in UpdatableKeys : HasChange(k) <=> k = "security_groups"
    /\ UsersUnchanged

SecurityGroupsCallOnly ==
    /\ Len(calls) <= 1
    /\ CallsOf("RebootBroker") = {}
    /\ pc = "done" =>
          /\ Len(calls) = 1
          /\ calls[1].api = "UpdateBroker"
          /\ calls[1].BrokerId = BrokerId
          /\ calls[1].fields = {"SecurityGroups"}

\* C8: an Update in which only security_groups changed issues one remote
\* call, the UpdateBroker carrying the security groups, and no RebootBroker,
\* whatever apply_immediately is.
C8_SecurityGroupsOnly == OnlySecurityGroupsChanged => SecurityGroupsCallOnly

\* The same where the user set holds every username once.
SecurityGroupsOnlyUniqueNames ==
    (OnlySecurityGroupsChanged /\ UniqueNames(newUsers)) => SecurityGroupsCallOnly

NothingChanged ==
    /\ handler = "update"
    /\ \A k \in UpdatableKeys : ~HasChange(k)
    /\ UsersUnchanged

\* C9: an Update in which no updatable attribute and no user changed issues
\* no remote call at all and returns without error.
C9_NoChangeNoCall ==
    NothingChanged => (calls = <<>> /\ (pc = "done" => result = "ok"))

\* The same where the user set holds every username once.
NoChangeNoCallUniqueNames ==
    (NothingChanged /\ UniqueNames(newUsers)) =>
        (calls = <<>> /\ (pc = "done" => result = "ok"))

\* The attribute groups with an UpdateBroker call of their own, the
\* attributes each covers and the members its input sets.
UpdateGroups ==
    {"security_groups", "configuration", "host_instance_type",
     "auto_minor_version_upgrade", "maintenance_window_start_time"}
GroupKeys(g) ==
    IF g = "configuration" THEN {"configuration", "logs", "engine_version"} ELSE {g}
GroupFields(g) ==
    CASE g = "security_groups" -> {"SecurityGroups"}
      [] g = "configuration" -> {"Configuration", "EngineVersion", "Logs"}
      [] g = "host_instance_type" -> {"HostInstanceType"}
      [] g = "auto_minor_version_upgrade" -> {"AutoMinorVersionUpgrade"}
      [] g = "maintenance_window_start_time" -> {"MaintenanceWindowStartTime"}
GroupChanged(g) == \E k \in GroupKeys(g) : cfgOld[k] # cfgNew[k]
UpdateBrokerCallsFor(g) == {i \in CallsOf("UpdateBroker") : calls[i].target = g}

\* C10: in an Update whose remote calls all succeed there is one UpdateBroker
\* call for each changed group and none for an unchanged one; a change of any
\* of configuration, logs and engine_version gives one call that carries all
\* three.
C10_OneUpdatePerChangedGroup ==
    (UpdateDone /\ AllCallsOk) =>
        /\ \A i \in CallsOf("UpdateBroker") : calls[i].target \in UpdateGroups
        /\ \A g \in UpdateGroups :
              /\ Cardinality(UpdateBrokerCallsFor(g)) = IF GroupChanged(g) THEN 1 ELSE 0
              /\ \A i \in UpdateBrokerCallsFor(g) :
                    calls[i].fields = GroupFields(g) /\ calls[i].BrokerId = BrokerId

\* An Update with every group changed, the configuration group through logs
\* alone.
C10_Witness ==
    /\ UpdateDone /\ AllCallsOk
    /\ HasChange("logs") /\ ~HasChange("configuration") /\ ~HasChange("engine_version")
    /\ Cardinality(CallsOf("UpdateBroker")) = 5

-----------------------------------------------------------------------------
(* Properties of the ForceNew attributes, of Create, Delete and the waits. *)

OnlyCreationOnlyChanged ==
    /\ handler = "update"
    /\ \E k \in CreationOnlyKeys : HasChange(k)
    /\ \A k \in UpdatableKeys : ~HasChange(k)
    /\ UsersUnchanged

NoMutatingCall ==
    CallsOf("UpdateBroker") = {} /\ UserCalls = {} /\ CallsOf("RebootBroker") = {}

CreationOnlyNoCallUniqueNames ==
    (OnlyCreationOnlyChanged /\ UniqueNames(newUsers)) =>
        (NoMutatingCall /\ (pc = "done" => result = "ok"))

CreateRun == handler = "create"
ReadPcs == {"read_find", "read_describe_users", "read_set_user"}
FindAnswers == {"found", "NotFound", "Forbidden", "error"}

\* calls[from..to] are polls that left the wait of the kind pending.
PendingPolls(kind, from, to) ==
    \A i \in from..to :
        /\ calls[i].api = "DescribeBroker"
        /\ PollVerdict(kind, calls[i].target) = "pending"

\* The wait of the kind, started after call number first, failed and no
\* call was issued after its last poll.
WaitFailedLast(kind, first) ==
    /\ pc = "done" /\ result = "error"
    /\ PendingPolls(kind, first + 1, Len(calls) - 1)
    /\ IF wait.err = "TimeoutError"
       THEN PendingPolls(kind, Len(calls), Len(calls))
       ELSE /\ Len(calls) > first
            /\ calls[Len(calls)].api = "DescribeBroker"
            /\ PollVerdict(kind, calls[Len(calls)].target) \in {"unexpected", "error"}

\* C12: Create calls CreateBroker first and once; the Created wait polls only
\* after CreateBroker succeeded; Read runs only after a poll reached RUNNING,
\* and a Create that returns success has run it; a failed CreateBroker ends
\* Create with an error after that one call, with no id set, and a failed wait
\* ends it with an error after the wait's last poll.
C12_CreateOrder ==
    CreateRun =>
        /\ calls # <<>> =>
              /\ calls[1].api = "CreateBroker"
              /\ \A i \in 2..Len(calls) : calls[i].api # "CreateBroker"
        /\ pc = "crt_wait_created" =>
              calls[1].ok /\ PendingPolls("created", 2, Len(calls))
        /\ (calls # <<>> /\ ~calls[1].ok) =>
              pc = "done" /\ result = "error" /\ Len(calls) = 1 /\ dId = ""
        /\ wait.err # "none" => calls[1].ok /\ WaitFailedLast("created", 1)
        /\ (pc \in ReadPcs \/ (pc = "done" /\ result = "ok")) =>
              /\ calls[1].ok /\ wait.err = "none"
              /\ \E k \in 2..Len(calls) :
                    /\ calls[k].api = "DescribeBroker" /\ calls[k].target = "RUNNING"
                    /\ PendingPolls("created", 2, k - 1)
                    /\ k < Len(calls) =>
                          /\ calls[k + 1].api = "DescribeBroker"
                          /\ calls[k + 1].target \in FindAnswers
                    /\ pc = "read_find" => k = Len(calls)
        /\ (pc = "done" /\ result = "ok") =>
              /\ dId = BrokerId
              /\ \E i \in 2..Len(calls) : calls[i].target = "found"

\* A Create that polled a pending state, then RUNNING, read a user and
\* returned success.
C12_Witness ==
    /\ CreateRun /\ pc = "done" /\ result = "ok"
    /\ calls[2].target = "CREATION_IN_PROGRESS"
    /\ calls[3].target = "RUNNING"
    /\ Len(stateUsers) >= 1

DeleteRun == handler = "delete"

\* C13: Delete calls DeleteBroker first and once.  On a not-found answer it
\* returns success with no poll; on any other error it returns the error with
\* no poll; after a successful DeleteBroker it polls, returns success only
\* when its last poll found the broker absent, and an error when the wait
\* failed.
C13_DeleteIdempotent ==
    (DeleteRun /\ calls # <<>>) =>
        /\ calls[1].api = "DeleteBroker"
        /\ \A i \in 2..Len(calls) : calls[i].api = "DescribeBroker"
        /\ calls[1].target = "NotFound" =>
              pc = "done" /\ result = "ok" /\ Len(calls) = 1
        /\ calls[1].target = "error" =>
              pc = "done" /\ result = "error" /\ Len(calls) = 1
        /\ calls[1].target = "deleted" =>
              /\ pc \in {"del_wait_deleted", "done"}
              /\ (pc = "done" /\ result = "ok") =>
                    /\ Len(calls) >= 2
                    /\ calls[Len(calls)].target = "NotFound"
                    /\ \A i \in 2..(Len(calls) - 1) : calls[i].target # "NotFound"
              /\ wait.err # "none" => WaitFailedLast("deleted", 1)
              /\ pc = "done" => (result = "ok" <=> wait.err = "none")

\* A Delete that saw the broker still being deleted, then absent.
C13_Witness ==
    /\ DeleteRun /\ pc = "done" /\ result = "ok"
    /\ Len(calls) = 3
    /\ calls[2].target = "DELETION_IN_PROGRESS"

ReadRun == handler = "read"

\* C14: a Read of a resource that is not new whose fetch answers NotFound or
\* Forbidden clears the id and returns without error after that one call: no
\* DescribeUser, and neither "user" nor another attribute is written.
C14_ReadSignalsRemoval ==
    (ReadRun /\ ~isNew /\ calls # <<>> /\ calls[1].target \in {"NotFound", "Forbidden"}) =>
        /\ pc = "done" /\ result = "ok"
        /\ dId = ""
        /\ Len(calls) = 1
        /\ CallsOf("DescribeUser") = {}
        /\ stateUsers = NoResult /\ rawUsers = <<>>
        /\ cfgNew = cfgOld

\* A Read that was answered Forbidden and dropped the resource.
C14_Witness ==
    /\ ReadRun /\ ~isNew /\ pc = "done"
    /\ calls[1].target = "Forbidden"
    /\ dId = "" /\ newUsers # <<>>

\* The fetch of the Read that ends a Create: the call after the poll that
\* reached RUNNING.
CreateReadFetch(k) ==
    /\ k \in 3..Len(calls)
    /\ calls[k - 1].api = "DescribeBroker" /\ calls[k - 1].target = "RUNNING"
    /\ calls[k].api = "DescribeBroker"

\* C15: when the fetch of the Read of a new resource answers not-found, as in
\* the Read that ends Create, the handler returns an error after that call
\* and the resource id stays set.
C15_NewResourceNotFound ==
    /\ CreateRun =>
          \A k \in 1..Len(calls) :
              (CreateReadFetch(k) /\ calls[k].target = "NotFound") =>
                  /\ pc = "done" /\ result = "error"
                  /\ dId = BrokerId
                  /\ Len(calls) = k
    /\ (ReadRun /\ isNew /\ calls # <<>> /\ calls[1].target = "NotFound") =>
          pc = "done" /\ result = "error" /\ dId = BrokerId /\ Len(calls) = 1

\* A Create whose wait reached RUNNING and whose Read then found no broker.
C15_Witness ==
    /\ CreateRun /\ pc = "done" /\ result = "error" /\ dId = BrokerId
    /\ wait.err = "none"
    /\ CreateReadFetch(Len(calls))
    /\ calls[Len(calls)].target = "NotFound"

\* An Update of a RabbitMQ broker that exists.
RabbitUpdate ==
    /\ handler = "update"
    /\ ToUpper(cfgNew["engine_type"]) = "RABBITMQ"
    /\ cfgNew["arn"] # ""

RabbitNoUserCallsUniqueNames ==
    (RabbitUpdate /\ UniqueNames(oldUsers)) =>
        (UserCalls = {} /\ cr = <<>> /\ di = <<>> /\ ur = <<>>)

\* The planned user set of such an Update is the prior one.
RabbitPlanKeepsUsers == RabbitUpdate => CanonSet(newUsers) = CanonSet(oldUsers)

UpdateRun == handler = "update"
FailedCalls == {i \in 1..Len(calls) : ~calls[i].ok}

\* C17: in an Update a failed remote call is the last call of the pass and
\* the pass has returned an error; so has a pass whose reboot wait failed,
\* and no call follows the wait's last poll.  A pass that returns success has
\* had no failed call.
C17_FailureHalts ==
    UpdateRun =>
        /\ \A i \in FailedCalls : i = Len(calls) /\ pc = "done" /\ result = "error"
        /\ wait.err # "none" =>
              /\ CallsOf("RebootBroker") # {}
              /\ \A r \in CallsOf("RebootBroker") : WaitFailedLast("rebooted", r)
        /\ (pc = "done" /\ result = "ok") => FailedCalls = {}
        /\ (pc = "done" /\ result = "error") => (FailedCalls # {} \/ wait.err # "none")

\* A pass that changed a group and created a user, then failed to delete
\* another and stopped there, though it had an update and a reboot to do.
C17_Witness ==
    /\ UpdateRun /\ pc = "done" /\ result = "error"
    /\ applyImmediately /\ HasChange("host_instance_type")
    /\ Len(calls) >= 3
    /\ calls[Len(calls)].api = "DeleteUser"
    /\ CallsOf("CreateUser") # {} /\ CallsOf("UpdateBroker") # {}

\* A step that polls the running wait, and the status the poll returned.
PollStep == pc \in WaitPcs /\ Len(calls') = Len(calls) + 1
Polled == calls'[Len(calls')].target

\* The sets of the three waits, as the source lists them.
ListedPending(kind) ==
    CASE kind = "created" -> {"CREATION_IN_PROGRESS", "REBOOT_IN_PROGRESS"}
      [] kind = "rebooted" -> {"REBOOT_IN_PROGRESS"}
      [] kind = "deleted" -> {"CREATION_FAILED", "DELETION_IN_PROGRESS",
                              "REBOOT_IN_PROGRESS", "RUNNING"}
ListedTarget(kind) == IF kind = "deleted" THEN {} ELSE {"RUNNING"}

WaitSucceeds ==
    /\ wait' = WaitEnded("none")
    /\ IF handler = "create" THEN pc' = "read_find" /\ result' = "none"
       ELSE pc' = "done" /\ result' = "ok"
WaitFailsUnexpected ==
    wait' = WaitEnded("UnexpectedStateError") /\ pc' = "done" /\ result' = "error"

\* C18: in each of the three waits a poll that returns a status of the
\* target set ends the wait with success, and a poll that returns a status of
\* neither set ends it with an unexpected-state error that the handler
\* returns; the Created wait polled with CREATION_FAILED ends so.
C18_WaitTargetAndUnexpected ==
    [][PollStep =>
         /\ wait.kind \in {"created", "rebooted", "deleted"}
         /\ Polled \in ListedTarget(wait.kind) => WaitSucceeds
         /\ Polled \in BrokerStates \ (ListedPending(wait.kind) \cup ListedTarget(wait.kind))
               => WaitFailsUnexpected
         /\ (wait.kind = "created" /\ Polled = "CREATION_FAILED") =>
               (handler = "create" /\ WaitFailsUnexpected)]_vars

\* A Create that has returned the error of a wait that saw CREATION_FAILED.
C18_Witness ==
    /\ CreateRun /\ pc = "done" /\ result = "error"
    /\ wait.err = "UnexpectedStateError"
    /\ calls[Len(calls)].target = "CREATION_FAILED"

\* C19: a wait never polls more than the polls its timeout leaves room for;
\* when all of them returned a pending status the wait ends with a timeout
\* error and the handler that called it returns an error; and every wait
\* that has started ends.
C19_WaitTerminates ==
    /\ [](pc \in WaitPcs => wait.polls <= MaxPolls)
    /\ [][(pc \in WaitPcs /\ wait.polls >= MaxPolls) =>
            /\ wait' = WaitEnded("TimeoutError")
            /\ calls' = calls
            /\ pc' = "done" /\ result' = "error"]_vars
    /\ [](pc \in WaitPcs => <>(pc \notin WaitPcs))

\* A Delete that has returned the timeout of its wait after polls that all
\* returned a pending status.
C19_Witness ==
    /\ DeleteRun /\ pc = "done" /\ result = "error"
    /\ wait.err = "TimeoutError"
    /\ Len(calls) = 1 + MaxPolls
    /\ PendingPolls("deleted", 2, Len(calls))

WaitGoesOn ==
    /\ pc' = pc /\ result' = result
    /\ wait' = [wait EXCEPT !.polls = @ + 1]

\* C20: a poll of the Deleted wait ends the wait with success exactly when it
\* finds the broker not found; on CREATION_FAILED, DELETION_IN_PROGRESS,
\* REBOOT_IN_PROGRESS or RUNNING the wait goes on; on any other status it
\* fails with an unexpected-state error.
C20_DeletedWait ==
    [][(PollStep /\ wait.kind = "deleted") =>
         /\ handler = "delete"
         /\ WaitSucceeds <=> Polled = "NotFound"
         /\ Polled \in {"CREATION_FAILED", "DELETION_IN_PROGRESS",
                        "REBOOT_IN_PROGRESS", "RUNNING"} => WaitGoesOn
         /\ Polled \in {"CREATION_IN_PROGRESS", "CRITICAL_ACTION_REQUIRED"}
               => WaitFailsUnexpected]_vars

\* A Deleted wait that saw RUNNING, went on, and failed on
\* CREATION_IN_PROGRESS.
C20_Witness ==
    /\ DeleteRun /\ pc = "done" /\ result = "error"
    /\ wait.err = "UnexpectedStateError"
    /\ Len(calls) = 3
    /\ calls[2].target = "RUNNING"
    /\ calls[3].target = "CREATION_IN_PROGRESS"

-----------------------------------------------------------------------------
(* Not-found polls, the creation token, validation, retries, usernames     *)

WaitEndsOtherwise ==
    \/ PollStep /\ Polled \in ListedTarget(wait.kind) /\ WaitSucceeds
    \/ PollStep /\ Polled \in BrokerStates /\ WaitFailsUnexpected
    \/ PollStep /\ Polled = "error" /\ wait'.err = "refresh error"
    \/ calls' = calls /\ wait.polls >= MaxPolls /\ wait'.err = "TimeoutError"

CreateRequests == {i \in 1..Len(calls) : calls[i].api = "CreateBroker"}

\* C22: the CreatorRequestId sent with CreateBroker is a function of the
\* broker name: two Create calls for the same broker name send the same
\* token.
C22_TokenFromName ==
    handler = "create" /\ pc = "create_input" =>
       \A i, j \in CreateRequests :
          calls[i].target = calls[j].target
             => calls[i].CreatorRequestId = calls[j].CreatorRequestId

\* C22 as the source has it: the token starts with "tf-" and the broker
\* name, and no two Create calls send the same token, whether for the same
\* broker name or not.
C22_TokenPerCall ==
    handler = "create" /\ pc = "create_input" =>
       /\ \A i \in CreateRequests :
             calls[i].CreatorRequestId[1] = <<"tf-", calls[i].target>>
       /\ \A i, j \in CreateRequests :
             i # j => calls[i].CreatorRequestId # calls[j].CreatorRequestId

\* Two Create calls for one broker name, the first of which failed.
C22_Witness ==
    /\ handler = "create" /\ pc = "create_input"
    /\ Len(calls) = 2
    /\ calls[1].target = calls[2].target
    /\ ~calls[1].ok

\* The password policy: 12 to 250 characters, at least 4 distinct ones, no
\* comma.
MeetsPolicy(text) ==
    /\ RuneCount(text) >= MinPasswordLen
    /\ RuneCount(text) <= MaxPasswordLen
    /\ Cardinality(Range(text)) >= MinUniqueChars
    /\ "," \notin Range(text)

Rejected == pc = "done" /\ result = "error" /\ calls = <<>>
NotYetValidated == pc = "schema_validate" /\ calls = <<>>

\* C23: a desired state with a user password that violates the password
\* policy is rejected before any remote call: no call is ever issued for it,
\* and the operation ends with an error.
C23_BadPasswordRejected ==
    (\E i \in 1..Len(newUsers) : ~MeetsPolicy(PasswordText(newUsers[i].password)))
       => /\ calls = <<>>
          /\ pc = "done" => result = "error"

\* The same for the passwords ValidBrokerPassword has an error for.
BadPasswordRejectedByValidator ==
    (\E i \in 1..Len(password) : ValidBrokerPassword(password[i]) # <<>>)
       => (NotYetValidated \/ (Rejected /\ pwErrors # <<>>))

\* A configuration with the password of 4 characters, rejected.
BadPasswordRejectedWitness ==
    /\ Rejected /\ pwErrors # <<>>
    /\ \E i \in 1..Len(newUsers) : newUsers[i].password = "S"

UserCallsFor(n) == {i \in UserCalls : calls[i].target = n}

AtMostOnce(S) == Cardinality(S) <= 1

OneCallPerBrokerOperation ==
    /\ CreateRun => AtMostOnce(CallsOf("CreateBroker"))
    /\ DeleteRun => AtMostOnce(CallsOf("DeleteBroker"))
    /\ UpdateRun =>
          /\ \A g \in UpdateGroups : AtMostOnce(UpdateBrokerCallsFor(g))
          /\ AtMostOnce(CallsOf("RebootBroker"))

\* C24: no mutating call is issued twice in one pass: Create issues at most
\* one CreateBroker, Delete at most one DeleteBroker, and an Update at most
\* one UpdateBroker for each field group, at most one user operation for each
\* username and at most one RebootBroker.
C24_NoCallTwice ==
    /\ OneCallPerBrokerOperation
    /\ UpdateRun => \A n \in Usernames : AtMostOnce(UserCallsFor(n))

\* The same for the Updates whose old and new users have one block for each
\* username.
NoCallTwiceUniqueNames ==
    /\ OneCallPerBrokerOperation
    /\ (UpdateRun /\ UniqueNames(oldUsers) /\ UniqueNames(newUsers))
          => \A n \in Usernames : AtMostOnce(UserCallsFor(n))

\* An Update that issued an UpdateBroker for every group, a user operation
\* for two usernames and a reboot.
NoCallTwiceWitness ==
    /\ UpdateDone /\ result = "ok"
    /\ UniqueNames(oldUsers) /\ UniqueNames(newUsers)
    /\ \A g \in UpdateGroups : Cardinality(UpdateBrokerCallsFor(g)) = 1
    /\ Cardinality(UserCalls) = 2
    /\ Cardinality(CallsOf("RebootBroker")) = 1

\* The configuration passed schema validation.
Accepted == handler \in {"create", "update"} /\ pwErrors = <<>>

\* C25: no user collection of an accepted desired state holds two entries
\* with the same username.
C25_UniqueUsernames == Accepted => UniqueNames(newUsers)

\* What the "user" set does keep apart: no two entries of an accepted user
\* collection agree on console_access, groups, password and username.
UniqueHashedFields ==
    Accepted => \A i, j \in 1..Len(newUsers) :
                   HashedFields(newUsers[i]) = HashedFields(newUsers[j]) => i = j

-----------------------------------------------------------------------------
(* Passes for two brokers                                                  *)

\* The calls the log holds that name a broker.
BrokerCalls(log) == {i \in 1..Len(log) : log[i].api # "CreateBroker"}

TwoPasses == suspended # NoPass

\* The log, the result and the remote users of the pass for other broker
\* and of the first pass, whichever of them takes the steps.
OtherActive == dId = OtherBrokerId
ViewOfOther ==
    IF OtherActive THEN <<calls, result, remoteUsers>>
    ELSE <<suspended.calls, suspended.result, suspended.remoteUsers>>
ViewOfFirst ==
    IF OtherActive THEN <<suspended.calls, suspended.result, suspended.remoteUsers>>
    ELSE <<calls, result, remoteUsers>>

\* The first pass is for the broker b-1 (a Read may clear d.Id(), a Create
\* sets it), the other for b-2.
OwnBrokerId ==
    TwoPasses =>
       /\ dId # suspended.dId
       /\ \A i \in BrokerCalls(ViewOfFirst[1]) : ViewOfFirst[1][i].BrokerId = BrokerId
       /\ \A i \in BrokerCalls(ViewOfOther[1]) :
             ViewOfOther[1][i].BrokerId = OtherBrokerId

\* C26: of two passes for two brokers whose steps interleave in any order,
\* every call that names a broker names the broker of the pass that issues
\* it, and a step changes the calls, the result and the remote users of one
\* pass only: what a pass calls and returns does not depend on the steps of
\* the other.
C26_PassesDoNotInterfere ==
    /\ []OwnBrokerId
    /\ [][TwoPasses =>
            \/ ViewOfOther' = ViewOfOther
            \/ ViewOfFirst' = ViewOfFirst]_vars

\* Both passes have issued calls and neither has returned.
C26_Witness ==
    /\ TwoPasses
    /\ calls # <<>> /\ pc # "done"
    /\ suspended.calls # <<>> /\ suspended.pc # "done"
    /\ \E i \in 1..Len(calls) : calls[i].api \in UserCallApis
    /\ \E i \in 1..Len(suspended.calls) : suspended.calls[i].api \in UserCallApis

-----------------------------------------------------------------------------
(* Updates of DiffBrokerUsers, the order of the user calls, the old list   *)

EntriesOf(users, n) == {i \in 1..Len(users) : users[i].username = n}
UpdatesOf(n) == {k \in 1..Len(ur) : ur[k].Username = n}

EntriesDiffer(o, n) ==
    \/ o.console_access # n.console_access
    \/ o.replication_user # n.replication_user
    \/ o.password # n.password
    \/ Range(o.groups.items) # Range(n.groups.items)

CarriesEntry(update, n) ==
    /\ update.ConsoleAccess = n.console_access
    /\ update.ReplicationUser = n.replication_user
    /\ update.Password = n.password
    /\ Range(update.Groups.items) = Range(n.groups.items)

\* C27: for a username with an entry in old and an entry in new,
\* DiffBrokerUsers emits an Update exactly when the two entries differ in the
\* console-access flag, the replication flag, the password or the group set
\* (so also when the password alone differs), and the Update carries the
\* flags, the password and the groups of the new entry.
C27_UpdateIffEntriesDiffer ==
    pc = "diff_done" =>
       \A i \in 1..Len(oldUsers), j \in 1..Len(newUsers) :
          (/\ oldUsers[i].username = newUsers[j].username
           /\ EntriesOf(oldUsers, oldUsers[i].username) = {i}
           /\ EntriesOf(newUsers, newUsers[j].username) = {j})
          => /\ UpdatesOf(newUsers[j].username) # {}
                   <=> EntriesDiffer(oldUsers[i], newUsers[j])
             /\ \A k \in UpdatesOf(newUsers[j].username) :
                   CarriesEntry(ur[k], newUsers[j])

\* The entry of alice differs in the password alone, and the one Update is
\* for alice with the new password.
C27_Witness ==
    /\ pc = "diff_done"
    /\ Len(oldUsers) = 1 /\ Len(newUsers) = 1
    /\ oldUsers[1].username = "alice" /\ newUsers[1].username = "alice"
    /\ oldUsers[1].password # newUsers[1].password
    /\ [oldUsers[1] EXCEPT !.password = "", !.groups = 0]
          = [newUsers[1] EXCEPT !.password = "", !.groups = 0]
    /\ Range(oldUsers[1].groups.items) = Range(newUsers[1].groups.items)
    /\ Len(ur) = 1 /\ ur[1].Username = "alice"
    /\ ur[1].Password = newUsers[1].password

\* The place of a user call in the order Create, Delete, Update.
UserCallRank(api) ==
    CASE api = "CreateUser" -> 1 [] api = "DeleteUser" -> 2 [] api = "UpdateUser" -> 3

\* C28: the user calls of an Update pass come in the order Create, Delete,
\* Update: every CreateUser call precedes every DeleteUser call and every
\* DeleteUser call precedes every UpdateUser call.
C28_CreateDeleteUpdateOrder ==
    UpdateRun =>
       \A i, j \in UserCalls :
          i < j => UserCallRank(calls[i].api) <= UserCallRank(calls[j].api)

\* A pass that has created a user, deleted one and updated one.
C28_Witness ==
    /\ UpdateDone /\ result = "ok"
    /\ \E i, j, k \in UserCalls :
          /\ i < j /\ j < k
          /\ calls[i].api = "CreateUser"
          /\ calls[j].api = "DeleteUser"
          /\ calls[k].api = "UpdateUser"

\* C29: in an Update pass the Deletes come last: every DeleteUser call is
\* issued after every CreateUser call and after every UpdateUser call.
C29_DeletesLast ==
    UpdateRun =>
       \A i \in CallsOf("DeleteUser") :
          \A j \in CallsOf("CreateUser") \cup CallsOf("UpdateUser") : j < i

\* C29 as the source has it: every DeleteUser call is issued after every
\* CreateUser call and before every UpdateUser call.
C29_DeletesBetween ==
    UpdateRun =>
       \A i \in CallsOf("DeleteUser") :
          /\ \A j \in CallsOf("CreateUser") : j < i
          /\ \A k \in CallsOf("UpdateUser") : i < k

\* A pass whose UpdateUser call came after its DeleteUser call, with no
\* CreateUser call.
C29_Witness ==
    /\ UpdateDone /\ result = "ok"
    /\ CallsOf("CreateUser") = {}
    /\ \E i \in CallsOf("DeleteUser") : \E k \in CallsOf("UpdateUser") : i < k

\* C30: DiffBrokerUsers leaves every entry of the old and of the new list it
\* is given as it was, in DiffBrokerUsers alone and in an Update.
C30_ListsNotMutated ==
    [][(pc \in {"diff", "upd_users"}) =>
          (oldUsers' = oldUsers /\ newUsers' = newUsers)]_vars

\* What does hold: the new list is left as it was (its entries are copied
\* before their groups are converted), and an entry of the old list changes
\* in nothing but the representation of its groups, from set to slice.
NewListNotMutated ==
    [][(pc \in {"diff", "upd_users"}) =>
          (/\ newUsers' = newUsers
           /\ Len(oldUsers') = Len(oldUsers)
           /\ \A i \in 1..Len(oldUsers) :
                 /\ [oldUsers'[i] EXCEPT !.groups = 0]
                       = [oldUsers[i] EXCEPT !.groups = 0]
                 /\ Range(oldUsers'[i].groups.items)
                       = Range(oldUsers[i].groups.items))]_vars

\* An Update has run DiffBrokerUsers on a non-empty old list, whose entries
\* now hold slices.
OldListMutatedWitness ==
    /\ UpdateRun /\ pc = "upd_create_users"
    /\ oldUsers # <<>>
    /\ \A i \in 1..Len(oldUsers) : oldUsers[i].groups.kind = "List"
    /\ \A j \in 1..Len(newUsers) : newUsers[j].groups.kind = "Set"

-----------------------------------------------------------------------------
(* The calls of Read, the inputs of Create, the errors and the end of waits *)

IsDescribeUser(c) == c.api = "DescribeUser"
IsOk(c) == c.ok
DescribeUserCalls == SelectSeq(calls, IsDescribeUser)
TargetsOf(log) == [i \in 1..Len(log) |-> log[i].target]
\* The fetch of the Read has found the broker.
ReadFound ==
    /\ handler \in {"read", "create"}
    /\ \/ pc \in {"read_describe_users", "read_set_user"}
       \/ pc = "done" /\ (DescribeUserCalls # <<>> \/ stateUsers # NoResult)
\* The summaries of the fetch: those described so far and those left.
FetchedSummaries == TargetsOf(SelectSeq(DescribeUserCalls, IsOk)) \o summaries
DescribeUserFailed ==
    DescribeUserCalls # <<>> /\ ~DescribeUserCalls[Len(DescribeUserCalls)].ok

\* C31: a Read that found the broker issues one DescribeUser per user
\* summary of the fetch, in the order of the summaries; when a DescribeUser
\* fails, it is the last call, Read returns an error and "user" is not
\* written.
C31_DescribeUserPerSummary ==
    /\ [](ReadFound =>
            /\ FetchedSummaries \in Perms(DOMAIN remoteUsers)
            /\ \A i \in 1..Len(DescribeUserCalls) - 1 : DescribeUserCalls[i].ok
            /\ \A i \in 1..Len(DescribeUserCalls) :
                  /\ DescribeUserCalls[i].target = FetchedSummaries[i]
                  /\ DescribeUserCalls[i].BrokerId = dId
            /\ (pc = "done" /\ result = "ok") =>
                  /\ summaries = <<>>
                  /\ Len(DescribeUserCalls) = Cardinality(DOMAIN remoteUsers)
            /\ DescribeUserFailed =>
                  /\ pc = "done" /\ result = "error"
                  /\ stateUsers = NoResult
                  /\ calls[Len(calls)] = DescribeUserCalls[Len(DescribeUserCalls)])
    /\ [][(pc = "read_describe_users" /\ summaries # <<>>) =>
             (/\ Len(calls') = Len(calls) + 1
              /\ calls'[Len(calls')].api = "DescribeUser"
              /\ calls'[Len(calls')].target = Head(summaries))]_vars

\* A Read of a broker of two users whose first DescribeUser succeeded and
\* whose second failed.
C31_Witness ==
    /\ ReadRun /\ pc = "done" /\ result = "error"
    /\ Len(DescribeUserCalls) = 2
    /\ DescribeUserCalls[1].ok /\ ~DescribeUserCalls[2].ok
    /\ Cardinality(DOMAIN remoteUsers) = 2
    /\ stateUsers = NoResult

\* The group assignment a Create is to carry for a new entry: none for an
\* empty group set, the groups of the entry otherwise.
CarriesGroupsOf(create, n) ==
    IF Range(n.groups.items) = {}
    THEN create.Groups = UnsetGroups
    ELSE /\ create.Groups # UnsetGroups
         /\ create.Groups.kind = "List"
         /\ Range(create.Groups.items) = Range(n.groups.items)
         /\ Len(create.Groups.items) = Cardinality(Range(n.groups.items))

CreateIsFor(create, n) ==
    /\ create.Username = n.username
    /\ create.Password = n.password
    /\ create.ConsoleAccess = n.console_access
    /\ create.ReplicationUser = n.replication_user

\* C32: a Create of DiffBrokerUsers for a new entry with no groups leaves the
\* group assignment unset (not an empty list), and a Create for an entry with
\* groups carries exactly those groups: every Create is that of a new entry,
\* and every new entry whose username old does not hold has its Create.
C32_CreateGroups ==
    pc = "diff_done" =>
       /\ \A k \in 1..Len(cr) :
             \E j \in 1..Len(newUsers) :
                CreateIsFor(cr[k], newUsers[j]) /\ CarriesGroupsOf(cr[k], newUsers[j])
       /\ \A j \in 1..Len(newUsers) :
             newUsers[j].username \notin Names(oldUsers) =>
                \E k \in 1..Len(cr) :
                   CreateIsFor(cr[k], newUsers[j]) /\ CarriesGroupsOf(cr[k], newUsers[j])

\* One Create for an entry without groups and one for an entry with two.
C32_Witness ==
    /\ pc = "diff_done" /\ oldUsers = <<>> /\ Len(cr) = 2
    /\ \E k, l \in 1..2 :
          /\ cr[k].Groups = UnsetGroups
          /\ cr[l].Groups # UnsetGroups /\ Len(cr[l].Groups.items) = 2

FirstMissing(users) ==
    CHOOSE i \in MissingUsername(users) : \A j \in MissingUsername(users) : i <= j

\* C33: DiffBrokerUsers given an old or a new entry without a username
\* aborts at that entry: it returns nothing to its caller, an Update pass
\* issues no user call, and the old entries from that entry on are untouched.
C33_MissingUsernameFailsFast ==
    /\ [](Panics(oldUsers, newUsers) =>
            /\ pc \in {"diff", "upd_users", "panic"}
            /\ cr = NoResult /\ di = NoResult /\ ur = NoResult
            /\ calls = <<>> /\ result = "none" /\ ~updatedUsers
            /\ (pc = "panic" /\ MissingUsername(oldUsers) # {}) =>
                  \A i \in 1..Len(oldUsers) :
                     i >= FirstMissing(oldUsers) => oldUsers[i].groups.kind = "Set")
    /\ [][Panics(oldUsers, newUsers) => (pc' = "panic" /\ remoteUsers' = remoteUsers)]_vars

\* updateBrokerUsers has panicked on a new entry without a username, after
\* the first loop went through a non-empty old list.
C33_Witness ==
    /\ handler = "users" /\ pc = "panic"
    /\ MissingUsername(newUsers) # {}
    /\ oldUsers # <<>> /\ MissingUsername(oldUsers) = {}
    /\ \A i \in 1..Len(oldUsers) : oldUsers[i].groups.kind = "List"
    /\ remoteUsers # NoUsers /\ calls = <<>>

IsRabbit(e) == e \in {"RabbitMQ", "RABBITMQ"}

\* C34: the Logs sent with CreateBroker and UpdateBroker carry the general
\* flag of the logs block as it is; for RabbitMQ, in any case of letters,
\* they never carry an audit value, and for another engine they carry one
\* exactly when logs.audit is not null, and then its value.
C34_RabbitNoAudit ==
    \A i \in 1..Len(calls) :
       LET l == cfgNew["logs"]
           sent == calls[i].Logs
       IN  /\ sent # NilPtr <=> (Len(l) > 0 /\ l[1] # NilBlock)
           /\ sent # NilPtr =>
                 /\ sent.v.General = Ptr(l[1].general)
                 /\ IF IsRabbit(cfgNew["engine_type"])
                    THEN sent.v.Audit = NilPtr
                    ELSE /\ sent.v.Audit # NilPtr <=> ~NullableBoolValue(l[1].audit).null
                         /\ sent.v.Audit # NilPtr =>
                               sent.v.Audit.v = NullableBoolValue(l[1].audit).value

\* A RabbitMQ broker created with logs.audit "false" and the general flag
\* on: the Logs sent have the flag and no audit value.
C34_Witness ==
    /\ handler = "create" /\ pc = "done" /\ result = "ok"
    /\ cfgNew["engine_type"] = "RabbitMQ"
    /\ cfgNew["logs"] = <<[general |-> TRUE, audit |-> "false"]>>
    /\ Len(calls) = 1
    /\ calls[1].Logs = Ptr([General |-> Ptr(TRUE), Audit |-> NilPtr])

\* The polls of a wait whose fetch failed with an error other than not-found.
FailedPolls ==
    {i \in 1..Len(calls) :
        /\ calls[i].api = "DescribeBroker" /\ calls[i].target = "error"
        /\ i > 1 /\ calls[i - 1].api \in {"CreateBroker", "RebootBroker",
                                           "DeleteBroker", "DescribeBroker"}
        /\ handler \in {"create", "update", "delete"}}

\* C35: in each wait a poll whose fetch fails with an error other than
\* not-found ends the wait with that error, not as pending: it is the last
\* call, and Create, Update or Delete returns an error.
C35_FetchErrorEndsWait ==
    /\ [][(PollStep /\ Polled = "error") =>
            (/\ wait.kind \in {"created", "rebooted", "deleted"}
             /\ wait' = WaitEnded("refresh error")
             /\ pc' = "done" /\ result' = "error")]_vars
    /\ [](\A i \in FailedPolls :
             i = Len(calls) /\ pc = "done" /\ result = "error")

\* An Update whose Rebooted wait saw the reboot in progress and then failed
\* to fetch the broker.
C35_Witness ==
    /\ UpdateDone /\ result = "error"
    /\ wait.err = "refresh error"
    /\ Len(calls) >= 3
    /\ calls[Len(calls) - 2].api = "RebootBroker"
    /\ calls[Len(calls) - 1].target = "REBOOT_IN_PROGRESS"
    /\ calls[Len(calls)].target = "error"
    /\ Len(calls) \in FailedPolls

\* C36: the Rebooted wait of an Update ends with success at the first poll
\* that returns RUNNING, whatever the polls before it returned: that poll is
\* the last call and Update returns without error, also when no poll has
\* shown the reboot in progress.
C36_RebootedAtFirstRunning ==
    UpdateRun =>
       \A j \in 1..Len(calls) :
          (calls[j].api = "DescribeBroker" /\ calls[j].target = "RUNNING") =>
             /\ j = Len(calls)
             /\ pc = "done" /\ result = "ok"
             /\ wait = WaitEnded("none")
             /\ \E k \in 1..(j - 1) : calls[k].api = "RebootBroker" /\ calls[k].ok

\* An Update that asked for the reboot, polled once, saw RUNNING and
\* returned success: no poll showed REBOOT_IN_PROGRESS.
C36_Witness ==
    /\ UpdateDone /\ result = "ok"
    /\ Len(calls) >= 2
    /\ calls[Len(calls) - 1].api = "RebootBroker" /\ calls[Len(calls) - 1].ok
    /\ calls[Len(calls)].api = "DescribeBroker"
    /\ calls[Len(calls)].target = "RUNNING"
    /\ \A i \in 1..Len(calls) : calls[i].target # "REBOOT_IN_PROGRESS"

\* The place of a call in the order in which resourceBrokerUpdate is written.
UpdateCallRank(c) ==
    CASE c.api = "DescribeBroker" -> 8
      [] c.api = "RebootBroker" -> 7
      [] c.api \in UserCallApis -> 3
      [] c.api = "UpdateBroker" /\ c.target = "security_groups" -> 1
      [] c.api = "UpdateBroker" /\ c.target = "configuration" -> 2
      [] c.api = "UpdateBroker" /\ c.target = "host_instance_type" -> 4
      [] c.api = "UpdateBroker" /\ c.target = "auto_minor_version_upgrade" -> 5
      [] c.api = "UpdateBroker" /\ c.target = "maintenance_window_start_time" -> 6
      [] OTHER -> 0

\* C37: the remote calls of an Update come in one order: the UpdateBroker of
\* the security groups, that of configuration, logs and engine version, the
\* user operations, the UpdateBroker of the instance type, of the auto minor
\* version upgrade, of the maintenance window, and then RebootBroker, which
\* is issued only when every call before it has succeeded.
C37_UpdateCallOrder ==
    UpdateRun =>
       /\ calls # <<>> => UpdateCallRank(calls[1]) \in 1..8
       \* No call has a lower place than the call before it, so none than any
       \* earlier call; two calls of one place are user operations or polls.
       /\ \A i \in 1..(Len(calls) - 1) :
             LET here == UpdateCallRank(calls[i])
                 next == UpdateCallRank(calls[i + 1])
             IN  here <= next /\ (here = next => here \in {3, 8})
       /\ \A r \in CallsOf("RebootBroker") : \A i \in 1..(r - 1) : calls[i].ok

\* An Update that made each of the five UpdateBroker calls, a user call and
\* the reboot, and returned success.
C37_Witness ==
    /\ UpdateDone /\ result = "ok"
    /\ {UpdateCallRank(calls[i]) : i \in 1..Len(calls)} = 1..8

\* C38: Create sets the id and the ARN that CreateBroker returned before it
\* starts to wait: from the successful call on they stay set, also when the
\* Created wait has failed and Create has returned its error; when
\* CreateBroker fails, Create returns an error with no id set.
C38_IdSetBeforeWait ==
    (CreateRun /\ calls # <<>>) =>
       /\ calls[1].api = "CreateBroker"
       /\ IF calls[1].ok
          THEN /\ dId = BrokerId /\ cfgNew["arn"] = BrokerArn
               /\ wait.err # "none" => (pc = "done" /\ result = "error")
          ELSE /\ dId = "" /\ cfgNew["arn"] = ""
               /\ Len(calls) = 1 /\ pc = "done" /\ result = "error"
               /\ wait = NoWait

\* A Create whose wait ran into its timeout: it has returned an error and
\* the id is set.
C38_Witness ==
    /\ CreateRun /\ pc = "done" /\ result = "error"
    /\ calls[1].ok /\ wait.err = "TimeoutError"
    /\ dId = BrokerId /\ cfgNew["arn"] = BrokerArn

\* A Read, alone or at the end of a Create, has found the broker and
\* returned without error.
ReadSucceeded ==
    /\ handler \in {"read", "create"}
    /\ pc = "done" /\ result = "ok" /\ dId # ""

\* C39: the "user" collection a successful Read writes holds the usernames
\* the remote system reported, each once, and no other: a user of the prior
\* state that was not reported is dropped and none is added.
C39_ReadWritesRemoteUsernames ==
    ReadSucceeded =>
       /\ Names(stateUsers) = DOMAIN remoteUsers
       /\ UniqueNames(stateUsers)
       /\ [i \in 1..Len(stateUsers) |-> stateUsers[i].username]
             = TargetsOf(SelectSeq(DescribeUserCalls, IsOk))

\* The prior state declares a user the broker does not report, the broker
\* reports one the prior state lacks: the first is dropped, the second
\* written.
C39_Witness ==
    /\ ReadRun /\ ReadSucceeded
    /\ Names(newUsers) \ DOMAIN remoteUsers # {}
    /\ DOMAIN remoteUsers \ Names(newUsers) # {}
    /\ Names(newUsers) \cap DOMAIN remoteUsers # {}
    /\ Names(stateUsers) = DOMAIN remoteUsers

====
